---- MODULE Spec2Model ----
(***************************************************************************)
(* discogs-load: the four streaming entity parsers (artist, label, master, *)
(* release), the batch maps they fill, the bulk writer and the driver      *)
(* read_files, as a state machine over the events of the XML reader.       *)
(***************************************************************************)
EXTENDS Integers, Sequences, FiniteSets, TLC

(***************************************************************************)
(* Bounds of the explored inputs.                                          *)
(***************************************************************************)
MaxRecords == 3
MaxRichRecords == 2
MaxItems == 2
MaxChildren == 1
MaxId == 3
MaxBatch == 2
MaxFiles == 2
MaxArtists == 1

(***************************************************************************)
(* XML events as quick_xml delivers them to process().                     *)
(***************************************************************************)
Ev(type, name, attrs, text) ==
    [type |-> type, name |-> name, attrs |-> attrs, text |-> text]
EvStart(name, attrs) == Ev("Start", name, attrs, "")
EvEnd(name) == Ev("End", name, <<>>, "")
EvEmpty(name, attrs) == Ev("Empty", name, attrs, "")
EvText(text) == Ev("Text", "", <<>>, text)

(***************************************************************************)
(* Text payloads.  NumTable[n + 1] is the decimal text of n; RecText[k] is *)
(* the scalar text carried by the k-th record of a file and                *)
(* ItemTable[k][j] the text of the j-th collection item of that record, so *)
(* that every occurrence in a document carries its own text.               *)
(***************************************************************************)
NumTable == <<"0", "1", "2", "3", "4", "5", "6", "7", "8", "9">>
NumText(n) == NumTable[n + 1]
RecText == <<"t1", "t2", "t3", "t4", "t5", "t6">>
ItemTable ==
    << <<"r1a", "r1b", "r1c", "r1d">>, <<"r2a", "r2b", "r2c", "r2d">>,
       <<"r3a", "r3b", "r3c", "r3d">>, <<"r4a", "r4b", "r4c", "r4d">>,
       <<"r5a", "r5b", "r5c", "r5d">> >>
BadEscape == "&bad;"
Whitespace == " "
NotANumber == "x"

(***************************************************************************)
(* str::parse(str::from_utf8(&e.unescaped()?)?)? : unescaping fails on an  *)
(* unknown entity, and parsing to i32 fails on text that is not a decimal  *)
(* number; parsing to String cannot fail.                                  *)
(***************************************************************************)
Unescaped(t) ==
    IF t = BadEscape THEN [ok |-> FALSE, val |-> ""] ELSE [ok |-> TRUE, val |-> t]

ParseString(t) == Unescaped(t)

ParseI32(t) ==
    LET u == Unescaped(t) IN
    IF ~u.ok THEN [ok |-> FALSE, val |-> 0]
    ELSE IF \E n \in 0..(Len(NumTable) - 1) : NumText(n) = u.val
         THEN [ok |-> TRUE,
               val |-> CHOOSE n \in 0..(Len(NumTable) - 1) : NumText(n) = u.val]
         ELSE [ok |-> FALSE, val |-> 0]

(***************************************************************************)
(* HashMap<i32, T>.                                                        *)
(***************************************************************************)
HashMapNew == [k \in {} |-> 0]
MapLen(m) == Cardinality(DOMAIN m)
MapPut(m, k, v) == [x \in (DOMAIN m) \cup {k} |-> IF x = k THEN v ELSE m[x]]
Values(m) == {m[k] : k \in DOMAIN m}

\* The orders in which map.values() can visit the entries of m, each as the
\* sequence of their keys: the order depends on the hasher's random keys.
ValuesOrders(m) ==
    {o \in [1..MapLen(m) -> DOMAIN m] : \A a, b \in 1..MapLen(m) : o[a] = o[b] => a = b}

(***************************************************************************)
(* Row model: the record types, their constructors and to_sql.             *)
(***************************************************************************)
ArtistNew ==
    [id |-> 0, name |-> "", real_name |-> "", profile |-> "", data_quality |-> "",
     name_variations |-> <<>>, urls |-> <<>>, aliases |-> <<>>, members |-> <<>>]

LabelNew ==
    [name |-> "", contactinfo |-> "", profile |-> "", parent_label |-> "",
     sublabels |-> <<>>, urls |-> <<>>, data_quality |-> ""]

MasterNew ==
    [id |-> 0, title |-> "", release_id |-> 0, year |-> 0, notes |-> "",
     genres |-> <<>>, styles |-> <<>>, data_quality |-> ""]

MasterArtistNew ==
    [id |-> 0, master_id |-> 0, name |-> "", anv |-> "", role |-> ""]

ReleaseNew ==
    [id |-> 0, status |-> "", title |-> "", country |-> "", released |-> "",
     notes |-> "", genres |-> <<>>, styles |-> <<>>, master_id |-> 0,
     data_quality |-> ""]

Tables ==
    {"artist", "label", "master", "master_artist", "release", "release_label",
     "release_video"}

\* The fields each to_sql puts in its vector, in order.
ToSqlFields(table) ==
    CASE table = "artist" ->
           <<"id", "name", "real_name", "profile", "data_quality",
             "name_variations", "urls", "aliases", "members">>
      [] table = "label" ->
           <<"name", "contactinfo", "profile", "parent_label", "sublabels", "urls",
             "data_quality">>
      [] table = "master" ->
           <<"id", "title", "release_id", "year", "notes", "genres", "styles",
             "data_quality">>
      [] table = "master_artist" -> <<"id", "master_id", "name", "anv", "role">>
      [] table = "release" ->
           <<"id", "status", "title", "country", "released", "notes", "genres",
             "styles", "master_id", "data_quality">>
      [] table = "release_label" -> <<"release_id", "label", "catno", "label_id">>
      [] table = "release_video" -> <<"release_id", "duration", "src", "title">>

\* The Postgres type a struct field serialises as: i32, String, Vec<String>.
FieldType(field) ==
    IF field \in {"id", "release_id", "year", "master_id", "label_id", "duration"}
    THEN "INT4"
    ELSE IF field \in {"name_variations", "urls", "aliases", "members", "sublabels",
                       "genres", "styles"}
         THEN "TEXT_ARRAY"
         ELSE "TEXT"

ToSqlTypes(table) ==
    [i \in 1..Len(ToSqlFields(table)) |-> FieldType(ToSqlFields(table)[i])]

to_sql(table, row) ==
    [i \in 1..Len(ToSqlFields(table)) |-> row[ToSqlFields(table)[i]]]

(***************************************************************************)
(* Bulk writer: the column list and column types each write_* hands to     *)
(* InsertCommand::new.                                                     *)
(***************************************************************************)
ColNames(table) ==
    CASE table = "artist" ->
           <<"id", "name", "real_name", "profile", "data_quality",
             "name_variations", "urls", "aliases", "members">>
      [] table = "label" ->
           <<"id", "name", "contactinfo", "profile", "parent_label", "sublabels",
             "urls", "data_quality">>
      [] table = "master" ->
           <<"id", "title", "release_id", "year", "notes", "genres", "styles",
             "data_quality">>
      [] table = "master_artist" -> <<"artist_id", "master_id", "name", "anv", "role">>
      [] table = "release" ->
           <<"id", "status", "title", "country", "released", "notes", "genres",
             "styles", "master_id", "data_quality">>
      [] table = "release_label" -> <<"release_id", "label", "catno", "label_id">>
      [] table = "release_video" -> <<"release_id", "duration", "src", "title">>

ColTypes(table) ==
    CASE table = "artist" ->
           <<"INT4", "TEXT", "TEXT", "TEXT", "TEXT", "TEXT_ARRAY", "TEXT_ARRAY",
             "TEXT_ARRAY", "TEXT_ARRAY">>
      [] table = "label" ->
           <<"INT4", "TEXT", "TEXT", "TEXT", "TEXT", "TEXT_ARRAY", "TEXT_ARRAY",
             "TEXT">>
      [] table = "master" ->
           <<"INT4", "TEXT", "INT4", "INT4", "TEXT", "TEXT_ARRAY", "TEXT_ARRAY",
             "TEXT">>
      [] table = "master_artist" -> <<"INT4", "INT4", "TEXT", "TEXT", "TEXT">>
      [] table = "release" ->
           <<"INT4", "TEXT", "TEXT", "TEXT", "TEXT", "TEXT", "TEXT_ARRAY",
             "TEXT_ARRAY", "INT4", "TEXT">>
      [] table = "release_label" -> <<"INT4", "TEXT", "TEXT", "INT4">>
      [] table = "release_video" -> <<"INT4", "INT4", "TEXT", "TEXT">>

\* Database faults a flush can meet: none, the connection, or the k-th copy.
Faults == {"none", "connect", "copy1", "copy2", "copy3"}
CopyFault == <<"copy1", "copy2", "copy3">>

\* InsertCommand::execute on one table.  writer.write asserts that the row
\* has as many values as the copy has column types, and rejects a value
\* whose type the column does not accept; a copy that is not finished is
\* rolled back by the server.
InsertCommandExecute(table, data, faulty) ==
    IF faulty THEN "failed"
    ELSE IF data = HashMapNew THEN "committed"
    ELSE IF Len(ToSqlTypes(table)) # Len(ColTypes(table)) THEN "panicked"
    ELSE IF ToSqlTypes(table) # ColTypes(table) THEN "failed"
    ELSE "committed"

\* Mutant: a connection of its own for each table, as the separate
\* write_* functions of the earlier src/db.rs had.
WriteRowsConnectEach(tables, fault) ==
    LET n == Len(tables)
        status(i) == InsertCommandExecute(tables[i].table, tables[i].data,
                                          fault = CopyFault[i])
        stopped == {i \in 1..n : status(i) # "committed"}
        last == IF stopped = {} THEN n
                ELSE CHOOSE i \in stopped : \A j \in stopped : i <= j
    IN  IF fault = "connect" THEN [res |-> "err", copies |-> <<>>]
        ELSE [res |-> IF stopped = {} THEN "ok"
                      ELSE IF status(last) = "panicked" THEN "panic" ELSE "err",
              copies |-> [i \in 1..last |->
                            [table |-> tables[i].table, data |-> tables[i].data,
                             status |-> status(i), conn |-> i]]]

\* Db::connect, then Db::write_rows for each table in turn with `?`.
\* tables is a sequence of [table, data]; the result carries the copies
\* issued, in order, each with the connection of the call it went over
\* (the one Db::connect of the call), and how the call returned.
WriteRows(tables, fault) ==
    LET n == Len(tables)
        status(i) == InsertCommandExecute(tables[i].table, tables[i].data,
                                          fault = CopyFault[i])
        stopped == {i \in 1..n : status(i) # "committed"}
        last == IF stopped = {} THEN n
                ELSE CHOOSE i \in stopped : \A j \in stopped : i <= j
    IN  IF fault = "connect" THEN [res |-> "err", copies |-> <<>>]
        ELSE [res |-> IF stopped = {} THEN "ok"
                      ELSE IF status(last) = "panicked" THEN "panic" ELSE "err",
              copies |-> [i \in 1..last |->
                            [table |-> tables[i].table, data |-> tables[i].data,
                             status |-> status(i), conn |-> 1]]]

write_releases(releases, releases_labels, releases_videos, fault) ==
    WriteRows(<<[table |-> "release", data |-> releases],
                [table |-> "release_label", data |-> releases_labels],
                [table |-> "release_video", data |-> releases_videos]>>, fault)

write_labels(labels, fault) ==
    WriteRows(<<[table |-> "label", data |-> labels]>>, fault)

write_artists(artists, fault) ==
    WriteRows(<<[table |-> "artist", data |-> artists]>>, fault)

\* Mutant: only the parent table is written.
write_masters_parent_only(masters, masters_artists, fault) ==
    WriteRows(<<[table |-> "master", data |-> masters]>>, fault)

write_masters(masters, masters_artists, fault) ==
    WriteRows(<<[table |-> "master", data |-> masters],
                [table |-> "master_artist", data |-> masters_artists]>>, fault)

(***************************************************************************)
(* Helpers shared by the four process() functions.                         *)
(***************************************************************************)
\* How a call returned: Ok(()), Err(e) through `?`, or a panic (unwrap on
\* None, a failed assertion), with the bulk copies it issued.
Return(p, res, copies) == [p |-> p, res |-> res, copies |-> copies, wrote |-> FALSE]
\* The return after a write_* call w was made.
Written(p, w) == [p |-> p, res |-> w.res, copies |-> w.copies, wrote |-> TRUE]
Ok(p) == Return(p, "ok", <<>>)
Fail(p) == Return(p, "err", <<>>)
Panic(p) == Return(p, "panic", <<>>)

\* Mutant: insert() in place of entry().or_insert(), the last write wins.
OrInsertOverwrites(m, k, v) == MapPut(m, k, v)

\* map.entry(key).or_insert(value)
OrInsert(m, k, v) == IF k \in DOMAIN m THEN m ELSE MapPut(m, k, v)

\* Mutant: the batch is flushed one record late.
ThresholdReachedLate(m, batch_size) == MapLen(m) > batch_size

\* map.len() >= self.db_opts.batch_size
ThresholdReached(m, batch_size) == MapLen(m) >= batch_size

\* e.attributes().nth(i).unwrap()?.unescaped_value()? read as text or as
\* i32: a missing attribute is an unwrap on None.
AttrString(ev, i) ==
    IF Len(ev.attrs) < i + 1 THEN [res |-> "panic", val |-> ""]
    ELSE LET v == ParseString(ev.attrs[i + 1])
         IN [res |-> IF v.ok THEN "ok" ELSE "err", val |-> v.val]

AttrI32(ev, i) ==
    IF Len(ev.attrs) < i + 1 THEN [res |-> "panic", val |-> 0]
    ELSE LET v == ParseI32(ev.attrs[i + 1])
         IN [res |-> IF v.ok THEN "ok" ELSE "err", val |-> v.val]

\* A Text event in a scalar state: field = parse(text)?, then `next`.
ReadScalar(p, slot, field, parsed, next) ==
    IF parsed.ok
    THEN Ok([p EXCEPT ![slot] = [@ EXCEPT ![field] = parsed.val], !.state = next])
    ELSE Fail(p)

\* A Text event in an item state: field.extend(parse(text)), then `next`.
\* Mutant: the text of an <alias> item goes to aliases.
ExtendFieldOwn(p, slot, field, text, next) ==
    LET v == ParseString(text)
        own == IF next = "Aliases" THEN "aliases" ELSE field
    IN IF v.ok
       THEN Ok([p EXCEPT ![slot] = [@ EXCEPT ![own] = Append(@, v.val)],
                         !.state = next])
       ELSE Fail(p)

ExtendField(p, slot, field, text, next) ==
    LET v == ParseString(text) IN
    IF v.ok
    THEN Ok([p EXCEPT ![slot] = [@ EXCEPT ![field] = Append(@, v.val)],
                      !.state = next])
    ELSE Fail(p)

Goto(p, next) == Ok([p EXCEPT !.state = next])

(***************************************************************************)
(* ArtistsParser                                                           *)
(***************************************************************************)
ArtistsParserNew ==
    [state |-> "Artist", artists |-> HashMapNew, current_artist |-> ArtistNew]

ArtistStartState(name) ==
    CASE name = "id" -> "Id"
      [] name = "name" -> "Name"
      [] name = "realname" -> "RealName"
      [] name = "profile" -> "Profile"
      [] name = "data_quality" -> "DataQuality"
      [] name = "urls" -> "Urls"
      [] name = "namevariations" -> "NameVariations"
      [] name = "aliases" -> "Aliases"
      [] name = "members" -> "Members"
      [] OTHER -> "Artist"

\* Mutant: End(artist) stores the record with insert(), replacing the row
\* an earlier occurrence of the id left in the batch.
ArtistsCommitReplaces(p, batch_size, fault) ==
    LET artists == MapPut(p.artists, p.current_artist.id, p.current_artist)
        q == [p EXCEPT !.artists = artists]
    IN  IF ThresholdReached(artists, batch_size)
        THEN LET w == write_artists(artists, fault)
             IN IF w.res = "ok"
                THEN Written([q EXCEPT !.artists = HashMapNew, !.state = "Artist"], w)
                ELSE Written(q, w)
        ELSE Goto(q, "Artist")

\* End(artist): commit, and flush when the batch is full.
ArtistsCommit(p, batch_size, fault) ==
    LET artists == OrInsert(p.artists, p.current_artist.id, p.current_artist)
        q == [p EXCEPT !.artists = artists]
    IN  IF ThresholdReached(artists, batch_size)
        THEN LET w == write_artists(artists, fault)
             IN IF w.res = "ok"
                THEN Written([q EXCEPT !.artists = HashMapNew, !.state = "Artist"], w)
                ELSE Written(q, w)
        ELSE Goto(q, "Artist")

\* End(artists): write the remainder.
ArtistsFinish(p, fault) ==
    LET w == write_artists(p.artists, fault)
    IN IF w.res = "ok" THEN Written([p EXCEPT !.state = "Artist"], w) ELSE Written(p, w)

ArtistsProcess(p, ev, batch_size, fault) ==
    CASE p.state = "Artist" ->
           IF ev.type = "Start" /\ ev.name = "artist"
           THEN Ok([p EXCEPT !.current_artist =
                        [@ EXCEPT !.name_variations = <<>>, !.urls = <<>>,
                                  !.aliases = <<>>, !.members = <<>>],
                             !.state = "Artist"])
           ELSE IF ev.type = "Start" THEN Goto(p, ArtistStartState(ev.name))
           ELSE IF ev.type = "End" /\ ev.name = "artist"
                THEN ArtistsCommit(p, batch_size, fault)
           ELSE IF ev.type = "End" /\ ev.name = "artists"
                THEN ArtistsFinish(p, fault)
           ELSE Goto(p, "Artist")
      [] p.state = "Id" ->
           IF ev.type = "Text"
           THEN ReadScalar(p, "current_artist", "id", ParseI32(ev.text), "Id")
           ELSE IF ev.type = "End" /\ ev.name = "id" THEN Goto(p, "Artist")
           ELSE Goto(p, "Id")
      [] p.state = "Name" ->
           IF ev.type = "Text"
           THEN ReadScalar(p, "current_artist", "name", ParseString(ev.text), "Name")
           ELSE IF ev.type = "End" /\ ev.name = "name" THEN Goto(p, "Artist")
           ELSE Goto(p, "Name")
      [] p.state = "RealName" ->
           IF ev.type = "Text"
           THEN ReadScalar(p, "current_artist", "real_name", ParseString(ev.text),
                           "RealName")
           ELSE IF ev.type = "End" /\ ev.name = "realname" THEN Goto(p, "Artist")
           ELSE Goto(p, "RealName")
      [] p.state = "Profile" ->
           IF ev.type = "Text"
           THEN ReadScalar(p, "current_artist", "profile", ParseString(ev.text),
                           "Profile")
           ELSE IF ev.type = "End" /\ ev.name = "profile" THEN Goto(p, "Artist")
           ELSE Goto(p, "Profile")
      [] p.state = "DataQuality" ->
           IF ev.type = "Text"
           THEN ReadScalar(p, "current_artist", "data_quality", ParseString(ev.text),
                           "DataQuality")
           ELSE IF ev.type = "End" /\ ev.name = "data_quality" THEN Goto(p, "Artist")
           ELSE Goto(p, "DataQuality")
      [] p.state = "Urls" ->
           IF ev.type = "Start" /\ ev.name = "url" THEN Goto(p, "Url")
           ELSE IF ev.type = "End" /\ ev.name = "urls" THEN Goto(p, "Artist")
           ELSE Goto(p, "Artist")
      [] p.state = "Url" ->
           IF ev.type = "Text"
           THEN ExtendField(p, "current_artist", "urls", ev.text, "Urls")
           ELSE Goto(p, "Urls")
      [] p.state = "Aliases" ->
           IF ev.type = "Start" /\ ev.name = "alias" THEN Goto(p, "Alias")
           ELSE IF ev.type = "End" /\ ev.name = "aliases" THEN Goto(p, "Artist")
           ELSE Goto(p, "Artist")
      [] p.state = "Alias" ->
           IF ev.type = "Text"
           THEN ExtendField(p, "current_artist", "members", ev.text, "Aliases")
           ELSE Goto(p, "Aliases")
      [] p.state = "Members" ->
           IF ev.type = "Start" /\ ev.name = "member" THEN Goto(p, "Member")
           ELSE IF ev.type = "End" /\ ev.name = "members" THEN Goto(p, "Artist")
           ELSE Goto(p, "Artist")
      [] p.state = "Member" ->
           IF ev.type = "Text"
           THEN ExtendField(p, "current_artist", "members", ev.text, "Members")
           ELSE Goto(p, "Members")
      [] OTHER -> Goto(p, "Members")

(***************************************************************************)
(* LabelsParser                                                            *)
(***************************************************************************)
LabelsParserNew ==
    [state |-> "ReadLabel", labels |-> HashMapNew, current_label |-> LabelNew,
     current_id |-> 0]

LabelStartState(name) ==
    CASE name = "name" -> "ReadName"
      [] name = "id" -> "ReadId"
      [] name = "contactinfo" -> "ReadContactinfo"
      [] name = "profile" -> "ReadProfile"
      [] name = "parent_label" -> "ReadParentLabel"
      [] name = "sublabels" -> "ReadSublabels"
      [] name = "urls" -> "ReadUrls"
      [] name = "data_quality" -> "ReadDataQuality"
      [] OTHER -> "ReadLabel"

\* End(label): commit, and flush when the batch is full.
LabelsCommit(p, batch_size, fault) ==
    LET labels == OrInsert(p.labels, p.current_id, p.current_label)
        q == [p EXCEPT !.labels = labels]
    IN  IF ThresholdReached(labels, batch_size)
        THEN LET w == write_labels(labels, fault)
             IN IF w.res = "ok"
                THEN Written([q EXCEPT !.labels = HashMapNew, !.state = "ReadLabel"], w)
                ELSE Written(q, w)
        ELSE Goto(q, "ReadLabel")

LabelsFinish(p, fault) ==
    LET w == write_labels(p.labels, fault)
    IN IF w.res = "ok" THEN Written([p EXCEPT !.state = "ReadLabel"], w) ELSE Written(p, w)

\* The scalar states of the label parser: the field each fills and the
\* end tag that leaves it.
LabelScalarField(state) ==
    CASE state = "ReadName" -> "name"
      [] state = "ReadContactinfo" -> "contactinfo"
      [] state = "ReadProfile" -> "profile"
      [] state = "ReadParentLabel" -> "parent_label"
      [] state = "ReadDataQuality" -> "data_quality"

LabelScalarTag(state) ==
    CASE state = "ReadName" -> "name"
      [] state = "ReadContactinfo" -> "contactinfo"
      [] state = "ReadProfile" -> "profile"
      [] state = "ReadParentLabel" -> "parent_label"
      [] state = "ReadDataQuality" -> "data_quality"

LabelsProcess(p, ev, batch_size, fault) ==
    CASE p.state = "ReadLabel" ->
           IF ev.type = "Start" /\ ev.name = "label"
           THEN Ok([p EXCEPT !.current_label =
                        [@ EXCEPT !.sublabels = <<>>, !.urls = <<>>],
                             !.state = "ReadLabel"])
           ELSE IF ev.type = "Start" THEN Goto(p, LabelStartState(ev.name))
           ELSE IF ev.type = "End" /\ ev.name = "label"
                THEN LabelsCommit(p, batch_size, fault)
           ELSE IF ev.type = "End" /\ ev.name = "labels"
                THEN LabelsFinish(p, fault)
           ELSE Goto(p, "ReadLabel")
      [] p.state = "ReadId" ->
           IF ev.type = "Text"
           THEN LET v == ParseI32(ev.text)
                IN IF v.ok THEN Ok([p EXCEPT !.current_id = v.val, !.state = "ReadId"])
                   ELSE Fail(p)
           ELSE IF ev.type = "End" /\ ev.name = "id" THEN Goto(p, "ReadLabel")
           ELSE Goto(p, "ReadId")
      [] p.state \in {"ReadName", "ReadContactinfo", "ReadProfile", "ReadParentLabel",
                      "ReadDataQuality"} ->
           IF ev.type = "Text"
           THEN ReadScalar(p, "current_label", LabelScalarField(p.state),
                           ParseString(ev.text), p.state)
           ELSE IF ev.type = "End" /\ ev.name = LabelScalarTag(p.state)
                THEN Goto(p, "ReadLabel")
           ELSE Goto(p, p.state)
      [] p.state = "ReadSublabels" ->
           IF ev.type = "Start" /\ ev.name = "label" THEN Goto(p, "ReadSublabel")
           ELSE IF ev.type = "End" /\ ev.name = "sublabels" THEN Goto(p, "ReadLabel")
           ELSE Goto(p, "ReadSublabels")
      [] p.state = "ReadSublabel" ->
           IF ev.type = "Text"
           THEN ExtendField(p, "current_label", "sublabels", ev.text, "ReadSublabels")
           ELSE Goto(p, "ReadSublabels")
      [] p.state = "ReadUrls" ->
           IF ev.type = "Start" /\ ev.name = "url" THEN Goto(p, "ReadUrl")
           ELSE IF ev.type = "End" /\ ev.name = "urls" THEN Goto(p, "ReadLabel")
           ELSE Goto(p, "ReadUrls")
      [] p.state = "ReadUrl" ->
           IF ev.type = "Text"
           THEN ExtendField(p, "current_label", "urls", ev.text, "ReadUrls")
           ELSE Goto(p, "ReadUrls")

(***************************************************************************)
(* MastersParser                                                           *)
(***************************************************************************)
MastersParserNew ==
    [state |-> "Master", masters |-> HashMapNew, current_master |-> MasterNew,
     current_artist |-> MasterArtistNew, current_master_id |-> 0,
     master_artists |-> HashMapNew]

MasterStartState(name) ==
    CASE name = "main_release" -> "MainRelease"
      [] name = "title" -> "Title"
      [] name = "artists" -> "Artists"
      [] name = "data_quality" -> "DataQuality"
      [] OTHER -> "Master"

MasterArtistStartState(name) ==
    CASE name = "id" -> "ArtistId"
      [] name = "name" -> "ArtistName"
      [] name = "anv" -> "ArtistAnv"
      [] name = "role" -> "ArtistRole"
      [] OTHER -> "Artists"

\* Start(master): clear the collections, then read attribute 0 as the id.
MastersStart(p, ev) ==
    LET q == [p EXCEPT !.current_master = [@ EXCEPT !.genres = <<>>, !.styles = <<>>]]
        id == AttrI32(ev, 0)
    IN  IF id.res = "ok"
        THEN Ok([q EXCEPT !.current_master = [@ EXCEPT !.id = id.val],
                          !.state = "Master"])
        ELSE Return(q, id.res, <<>>)

\* Mutant: the master-artist is bound to the running child counter.
MasterArtistStartCounter(p) ==
    [MasterArtistNew EXCEPT !.master_id = p.current_master_id]

\* Start(artist) inside artists: a fresh master-artist bound to its master.
MasterArtistStart(p) ==
    [MasterArtistNew EXCEPT !.master_id = p.current_master.id]

\* Mutant: End(artist) stores the row and leaves the counter as it is.
MasterArtistCommitNoCount(p) ==
    [p EXCEPT !.master_artists = OrInsert(@, p.current_master_id, p.current_artist)]

\* End(artist) inside artists: commit the child under the synthetic key.
MasterArtistCommit(p) ==
    [p EXCEPT !.master_artists = OrInsert(@, p.current_master_id, p.current_artist),
              !.current_master_id = @ + 1]

\* Mutant: the masters that were written stay in the map.
MastersCommitKeeps(p, batch_size, fault) ==
    LET masters == OrInsert(p.masters, p.current_master.id, p.current_master)
        q == [p EXCEPT !.masters = masters]
    IN  IF ThresholdReached(masters, batch_size)
        THEN LET w == write_masters(masters, p.master_artists, fault)
             IN IF w.res = "ok"
                THEN Written([q EXCEPT !.master_artists = HashMapNew,
                                      !.state = "Master"], w)
                ELSE Written(q, w)
        ELSE Goto(q, "Master")

\* End(master): commit, and flush when the batch is full.
MastersCommit(p, batch_size, fault) ==
    LET masters == OrInsert(p.masters, p.current_master.id, p.current_master)
        q == [p EXCEPT !.masters = masters]
    IN  IF ThresholdReached(masters, batch_size)
        THEN LET w == write_masters(masters, p.master_artists, fault)
             IN IF w.res = "ok"
                THEN Written([q EXCEPT !.masters = HashMapNew,
                                      !.master_artists = HashMapNew,
                                      !.state = "Master"], w)
                ELSE Written(q, w)
        ELSE Goto(q, "Master")

MastersFinish(p, fault) ==
    LET w == write_masters(p.masters, p.master_artists, fault)
    IN IF w.res = "ok" THEN Written([p EXCEPT !.state = "Master"], w) ELSE Written(p, w)

MasterArtistField(state) ==
    CASE state = "ArtistId" -> "id"
      [] state = "ArtistName" -> "name"
      [] state = "ArtistAnv" -> "anv"
      [] state = "ArtistRole" -> "role"

MastersProcess(p, ev, batch_size, fault) ==
    CASE p.state = "Master" ->
           IF ev.type = "Start" /\ ev.name = "master" THEN MastersStart(p, ev)
           ELSE IF ev.type = "Start" THEN Goto(p, MasterStartState(ev.name))
           ELSE IF ev.type = "End" /\ ev.name = "master"
                THEN MastersCommit(p, batch_size, fault)
           ELSE IF ev.type = "End" /\ ev.name = "masters"
                THEN MastersFinish(p, fault)
           ELSE Goto(p, "Master")
      [] p.state = "MainRelease" ->
           IF ev.type = "Text"
           THEN ReadScalar(p, "current_master", "release_id", ParseI32(ev.text),
                           "MainRelease")
           ELSE IF ev.type = "End" /\ ev.name = "main_release" THEN Goto(p, "Master")
           ELSE Goto(p, "MainRelease")
      [] p.state = "Artists" ->
           IF ev.type = "Start" /\ ev.name = "artist"
           THEN Ok([p EXCEPT !.current_artist = MasterArtistStart(p),
                             !.state = "Artists"])
           ELSE IF ev.type = "Start" THEN Goto(p, MasterArtistStartState(ev.name))
           ELSE IF ev.type = "End" /\ ev.name = "artist"
                THEN Goto(MasterArtistCommit(p), "Artists")
           ELSE IF ev.type = "End" /\ ev.name = "artists" THEN Goto(p, "Master")
           ELSE Goto(p, "Artists")
      [] p.state = "ArtistId" ->
           IF ev.type = "Text"
           THEN ReadScalar(p, "current_artist", "id", ParseI32(ev.text), "Artists")
           ELSE IF ev.type = "End" /\ ev.name = "id" THEN Goto(p, "Artists")
           ELSE Goto(p, "ArtistId")
      [] p.state \in {"ArtistName", "ArtistAnv", "ArtistRole"} ->
           IF ev.type = "Text"
           THEN ReadScalar(p, "current_artist", MasterArtistField(p.state),
                           ParseString(ev.text), "Artists")
           ELSE IF ev.type = "End" /\ ev.name = MasterArtistField(p.state)
                THEN Goto(p, "Artists")
           ELSE Goto(p, p.state)
      [] p.state = "Title" ->
           IF ev.type = "Text"
           THEN ReadScalar(p, "current_master", "title", ParseString(ev.text), "Title")
           ELSE IF ev.type = "End" /\ ev.name = "title" THEN Goto(p, "Master")
           ELSE Goto(p, "Title")
      [] p.state = "DataQuality" ->
           IF ev.type = "Text"
           THEN ReadScalar(p, "current_master", "data_quality", ParseString(ev.text),
                           "DataQuality")
           ELSE IF ev.type = "End" /\ ev.name = "data_quality" THEN Goto(p, "Master")
           ELSE Goto(p, "DataQuality")

(***************************************************************************)
(* ReleasesParser                                                          *)
(***************************************************************************)
ReleasesParserNew ==
    [state |-> "Release", releases |-> HashMapNew, current_release |-> ReleaseNew,
     current_id |-> 0, release_labels |-> HashMapNew, current_video_id |-> 0,
     release_videos |-> HashMapNew]

ReleaseStartState(name) ==
    CASE name = "title" -> "Title"
      [] name = "country" -> "Country"
      [] name = "released" -> "Released"
      [] name = "notes" -> "Notes"
      [] name = "genres" -> "Genres"
      [] name = "styles" -> "Styles"
      [] name = "master_id" -> "MasterId"
      [] name = "data_quality" -> "DataQuality"
      [] name = "labels" -> "Labels"
      [] name = "videos" -> "Videos"
      [] OTHER -> "Release"

\* Mutant: Start(release) leaves genres and styles as they are.
ReleasesStartKeeps(p, ev) ==
    LET status == AttrString(ev, 1)
        q == [p EXCEPT !.current_release = [@ EXCEPT !.status = status.val]]
        id == AttrI32(ev, 0)
    IN  IF status.res # "ok" THEN Return(p, status.res, <<>>)
        ELSE IF id.res # "ok" THEN Return(q, id.res, <<>>)
        ELSE Ok([q EXCEPT !.current_id = id.val,
                          !.current_release = [@ EXCEPT !.id = id.val],
                          !.state = "Release"])

\* Start(release): status from attribute 1, then the id from attribute 0,
\* then the collections are cleared.
ReleasesStart(p, ev) ==
    LET status == AttrString(ev, 1)
        q == [p EXCEPT !.current_release = [@ EXCEPT !.status = status.val]]
        id == AttrI32(ev, 0)
    IN  IF status.res # "ok" THEN Return(p, status.res, <<>>)
        ELSE IF id.res # "ok" THEN Return(q, id.res, <<>>)
        ELSE Ok([q EXCEPT !.current_id = id.val,
                          !.current_release =
                              [@ EXCEPT !.id = id.val, !.genres = <<>>,
                                        !.styles = <<>>],
                          !.state = "Release"])

\* Mutant: label is read from attribute 1 and catno from attribute 0.
ReleasesLabelCatnoFirst(p, ev) ==
    LET label_id == AttrI32(ev, 2)
        label == AttrString(ev, 1)
        catno == AttrString(ev, 0)
    IN  IF label_id.res # "ok" THEN Return(p, label_id.res, <<>>)
        ELSE IF label.res # "ok" THEN Return(p, label.res, <<>>)
        ELSE IF catno.res # "ok" THEN Return(p, catno.res, <<>>)
        ELSE Ok([p EXCEPT !.release_labels =
                      OrInsert(@, label_id.val,
                               [release_id |-> p.current_release.id,
                                label |-> label.val, catno |-> catno.val,
                                label_id |-> label_id.val]),
                          !.state = "Labels"])

\* Empty(..) inside labels: the key is attribute 2; the row is built from
\* the current release and attributes 0, 1 and 2.
ReleaseLabelKey(ev) == AttrI32(ev, 2)

ReleasesLabel(p, ev) ==
    LET label_id == ReleaseLabelKey(ev)
        label == AttrString(ev, 0)
        catno == AttrString(ev, 1)
    IN  IF label_id.res # "ok" THEN Return(p, label_id.res, <<>>)
        ELSE IF label.res # "ok" THEN Return(p, label.res, <<>>)
        ELSE IF catno.res # "ok" THEN Return(p, catno.res, <<>>)
        ELSE Ok([p EXCEPT !.release_labels =
                      OrInsert(@, label_id.val,
                               [release_id |-> p.current_release.id,
                                label |-> label.val, catno |-> catno.val,
                                label_id |-> label_id.val]),
                          !.state = "Labels"])

\* Start(video) inside videos: duration from attribute 1, src from
\* attribute 0, keyed by the running video counter.
ReleasesVideo(p, ev) ==
    LET duration == AttrI32(ev, 1)
        src == AttrString(ev, 0)
    IN  IF duration.res # "ok" THEN Return(p, duration.res, <<>>)
        ELSE IF src.res # "ok" THEN Return(p, src.res, <<>>)
        ELSE Ok([p EXCEPT !.release_videos =
                      OrInsert(@, p.current_video_id,
                               [release_id |-> p.current_release.id,
                                duration |-> duration.val, src |-> src.val,
                                title |-> ""]),
                          !.current_video_id = @ + 1,
                          !.state = "Videos"])

\* Mutant: a threshold flush also replaces the current record by a new one.
ReleasesCommitResets(p, batch_size, fault) ==
    LET releases == OrInsert(p.releases, p.current_id, p.current_release)
        q == [p EXCEPT !.releases = releases]
    IN  IF ThresholdReached(releases, batch_size)
        THEN LET w == write_releases(releases, p.release_labels, p.release_videos,
                                     fault)
             IN IF w.res = "ok"
                THEN Written([q EXCEPT !.releases = HashMapNew,
                                      !.release_labels = HashMapNew,
                                      !.release_videos = HashMapNew,
                                      !.current_release = ReleaseNew,
                                      !.state = "Release"], w)
                ELSE Written(q, w)
        ELSE Goto(q, "Release")

ReleasesCommit(p, batch_size, fault) ==
    LET releases == OrInsert(p.releases, p.current_id, p.current_release)
        q == [p EXCEPT !.releases = releases]
    IN  IF ThresholdReached(releases, batch_size)
        THEN LET w == write_releases(releases, p.release_labels, p.release_videos,
                                     fault)
             IN IF w.res = "ok"
                THEN Written([q EXCEPT !.releases = HashMapNew,
                                      !.release_labels = HashMapNew,
                                      !.release_videos = HashMapNew,
                                      !.state = "Release"], w)
                ELSE Written(q, w)
        ELSE Goto(q, "Release")

\* Mutant: End(releases) writes nothing.
ReleasesFinishNothing(p, fault) == Goto(p, "Release")

ReleasesFinish(p, fault) ==
    LET w == write_releases(p.releases, p.release_labels, p.release_videos, fault)
    IN IF w.res = "ok" THEN Written([p EXCEPT !.state = "Release"], w) ELSE Written(p, w)

ReleaseScalarField(state) ==
    CASE state = "Title" -> "title"
      [] state = "Country" -> "country"
      [] state = "Released" -> "released"
      [] state = "Notes" -> "notes"
      [] state = "DataQuality" -> "data_quality"

ReleasesProcess(p, ev, batch_size, fault) ==
    CASE p.state = "Release" ->
           IF ev.type = "Start" /\ ev.name = "release" THEN ReleasesStart(p, ev)
           ELSE IF ev.type = "Start" THEN Goto(p, ReleaseStartState(ev.name))
           ELSE IF ev.type = "End" /\ ev.name = "release"
                THEN ReleasesCommit(p, batch_size, fault)
           ELSE IF ev.type = "End" /\ ev.name = "releases"
                THEN ReleasesFinish(p, fault)
           ELSE Goto(p, "Release")
      [] p.state \in {"Title", "Country", "Released", "Notes", "DataQuality"} ->
           IF ev.type = "Text"
           THEN ReadScalar(p, "current_release", ReleaseScalarField(p.state),
                           ParseString(ev.text), p.state)
           ELSE IF ev.type = "End" /\ ev.name = ReleaseScalarField(p.state)
                THEN Goto(p, "Release")
           ELSE Goto(p, p.state)
      [] p.state = "Genres" ->
           IF ev.type = "Start" /\ ev.name = "genre" THEN Goto(p, "Genre")
           ELSE IF ev.type = "End" /\ ev.name = "genres" THEN Goto(p, "Release")
           ELSE Goto(p, "Genres")
      [] p.state = "Genre" ->
           IF ev.type = "Text"
           THEN ExtendField(p, "current_release", "genres", ev.text, "Genres")
           ELSE Goto(p, "Genres")
      [] p.state = "Styles" ->
           IF ev.type = "Start" /\ ev.name = "style" THEN Goto(p, "Style")
           ELSE IF ev.type = "End" /\ ev.name = "styles" THEN Goto(p, "Release")
           ELSE Goto(p, "Styles")
      [] p.state = "Style" ->
           IF ev.type = "Text"
           THEN ExtendField(p, "current_release", "styles", ev.text, "Styles")
           ELSE Goto(p, "Styles")
      [] p.state = "MasterId" ->
           IF ev.type = "Text"
           THEN ReadScalar(p, "current_release", "master_id", ParseI32(ev.text),
                           "MasterId")
           ELSE IF ev.type = "End" /\ ev.name = "master_id" THEN Goto(p, "Release")
           ELSE Goto(p, "MasterId")
      [] p.state = "Labels" ->
           IF ev.type = "Empty" THEN ReleasesLabel(p, ev)
           ELSE IF ev.type = "End" /\ ev.name = "labels" THEN Goto(p, "Release")
           ELSE Goto(p, "Labels")
      [] p.state = "Videos" ->
           IF ev.type = "Start" /\ ev.name = "video" THEN ReleasesVideo(p, ev)
           ELSE IF ev.type = "End" /\ ev.name = "videos" THEN Goto(p, "Release")
           ELSE Goto(p, "Videos")

(***************************************************************************)
(* The input: what the XML reader can deliver for a document of a family.  *)
(* A document is <family> record* </family>; the children of a record      *)
(* come in the order of the dump, each from the vocabulary `kinds` of the  *)
(* explored input class; rd is the reader's position in the document.      *)
(***************************************************************************)
Families == {"artists", "labels", "masters", "releases"}

RecordTag(family) ==
    CASE family = "artists" -> "artist"
      [] family = "labels" -> "label"
      [] family = "masters" -> "master"
      [] family = "releases" -> "release"

\* The shape of a child element of a record.
KindShape(family, tag) ==
    IF tag \in {"id", "main_release", "master_id"} THEN "num"
    ELSE IF tag \in {"urls", "sublabels", "genres", "styles", "aliases",
                     "namevariations", "members"} THEN "coll"
    ELSE IF tag = "artists" /\ family = "masters" THEN "martists"
    ELSE IF tag = "labels" /\ family = "releases" THEN "labels"
    ELSE IF tag = "tracklist" \/ (tag = "videos" /\ family = "masters") THEN "nested"
    ELSE IF tag = "videos" THEN "videos"
    ELSE "text"

ItemTag(coll) ==
    CASE coll = "urls" -> "url"
      [] coll = "sublabels" -> "label"
      [] coll = "genres" -> "genre"
      [] coll = "styles" -> "style"
      [] coll = "aliases" -> "alias"
      [] coll = "namevariations" -> "name"
      [] coll = "members" -> "member"

\* The item elements of the elements no parser has a state for: the
\* tracks of a release's tracklist and the videos of a master, each with a
\* title of its own.
InnerTag(tag) ==
    CASE tag = "tracklist" -> "track"
      [] tag = "videos" -> "video"

ReaderNew ==
    [stack |-> <<>>, recs |-> 0, pos |-> 0, items |-> 0, leaf |-> "none",
     ws |-> FALSE, done |-> FALSE, scan |-> FALSE]

Push(rd, tag) == [rd EXCEPT !.stack = Append(@, tag)]
Pop(rd) == [rd EXCEPT !.stack = SubSeq(@, 1, Len(@) - 1), !.leaf = "none"]
Top(rd) == rd.stack[Len(rd.stack)]

\* The ids a record may carry: any of 1..MaxId, or its ordinal in the file.
RecordIds(lim, rec) == IF lim.ids = "any" THEN 1..MaxId ELSE {rec}

\* Attributes of the opening tag of a record: masters carry id, releases
\* id and status; with lim.bad, also a tag without attributes and one whose
\* id is not a number.
RecordAttrs(lim, family, rec) ==
    CASE family = "masters" ->
           {<<NumText(i)>> : i \in RecordIds(lim, rec)}
             \cup (IF lim.bad THEN {<<>>, <<NotANumber>>} ELSE {})
      [] family = "releases" ->
           {<<NumText(i), "Accepted">> : i \in RecordIds(lim, rec)}
             \cup (IF lim.bad THEN {<<>>, <<NotANumber, "Accepted">>} ELSE {})
      [] OTHER -> {<<>>}

\* The text a scalar element of the rec-th record carries.
ScalarTexts(lim, tag, rec) ==
    IF tag = "id"
    THEN {NumText(i) : i \in RecordIds(lim, rec)}
           \cup (IF lim.bad THEN {NotANumber} ELSE {})
    ELSE IF KindShape("", tag) = "num" THEN {NumText(rec)}
    ELSE {RecText[rec]} \cup (IF lim.bad THEN {BadEscape} ELSE {})

\* The second text of a scalar element that comes in two Text events
\* (lim.split), as the text before and after a comment does.
SecondText(tag, rec) ==
    IF KindShape("", tag) = "num" THEN NumText(rec + 1) ELSE ItemTable[rec][1]

\* Attributes of a label tag of a release, in the order they are written:
\* name, catno, id; with lim.swap also catno, name, id.
LabelAttrs(lim, rec, item, i) ==
    {<<RecText[rec], ItemTable[rec][item], NumText(i)>>}
      \cup (IF lim.swap
            THEN {<<ItemTable[rec][item], RecText[rec], NumText(i)>>}
            ELSE {})

Step(ev, rd) == [ev |-> ev, rd |-> rd]

\* Inside a record: open one of the next child elements (those before it
\* being optional), or close the record when none that remains is required.
RecordSteps(lim, family, rd) ==
    LET kinds == lim.kinds[family]
        skippable(a, b) == \A k \in a..b : lim.optional
    IN  {Step(EvStart(kinds[k], <<>>),
              [Push(rd, kinds[k]) EXCEPT !.pos = k, !.items = 0,
                  !.leaf = IF KindShape(family, kinds[k]) \in {"num", "text"}
                           THEN "open" ELSE "none"]) :
            k \in {k \in (rd.pos + 1)..Len(kinds) : skippable(rd.pos + 1, k - 1)}}
        \cup (IF skippable(rd.pos + 1, Len(kinds))
              THEN {Step(EvEnd(RecordTag(family)), Pop(rd))} ELSE {})

\* Inside a child element of a record; with lim.bad, also a label tag
\* without its id attribute and a video tag without its duration.
ChildSteps(lim, family, rd) ==
    LET tag == Top(rd)
        shape == KindShape(family, tag)
        more == rd.items < (IF shape = "coll" THEN lim.items ELSE lim.children)
        close == {Step(EvEnd(tag), Pop(rd))}
    IN  CASE shape \in {"num", "text"} ->
               IF rd.leaf = "open"
               THEN {Step(EvText(t),
                          [rd EXCEPT !.leaf = IF lim.split THEN "half" ELSE "done"]) :
                        t \in ScalarTexts(lim, tag, rd.recs)}
               ELSE IF rd.leaf = "half"
               THEN {Step(EvText(SecondText(tag, rd.recs)), [rd EXCEPT !.leaf = "done"])}
               ELSE close
          [] shape = "coll" ->
               (IF more
                THEN {Step(EvStart(ItemTag(tag), <<>>),
                           [Push(rd, ItemTag(tag)) EXCEPT !.items = @ + 1,
                                                          !.leaf = "open"])}
                ELSE {})
               \cup (IF rd.items > 0 \/ lim.empty THEN close ELSE {})
          [] shape = "labels" ->
               (IF more
                THEN {Step(EvEmpty("label", a), [rd EXCEPT !.items = @ + 1]) :
                        a \in UNION {LabelAttrs(lim, rd.recs, rd.items + 1, i) :
                                       i \in lim.labelIds}}
                     \cup (IF lim.bad
                           THEN {Step(EvEmpty("label",
                                              <<RecText[rd.recs],
                                                ItemTable[rd.recs][rd.items + 1]>>),
                                      [rd EXCEPT !.items = @ + 1])}
                           ELSE {})
                ELSE {})
               \cup (IF rd.items > 0 \/ lim.empty THEN close ELSE {})
          [] shape = "videos" ->
               (IF more
                THEN {Step(EvStart("video",
                                   <<ItemTable[rd.recs][rd.items + 1], NumText(rd.recs)>>),
                           [Push(rd, "video") EXCEPT !.items = @ + 1])}
                     \cup (IF lim.bad
                           THEN {Step(EvStart("video", <<ItemTable[rd.recs][rd.items + 1]>>),
                                      [Push(rd, "video") EXCEPT !.items = @ + 1])}
                           ELSE {})
                ELSE {})
               \cup (IF rd.items > 0 \/ lim.empty THEN close ELSE {})
          [] shape = "martists" ->
               (IF more
                THEN {Step(EvStart("artist", <<>>),
                           [Push(rd, "artist") EXCEPT !.items = @ + 1])}
                ELSE {})
               \cup (IF rd.items > 0 \/ lim.empty THEN close ELSE {})
          [] shape = "nested" ->
               (IF more
                THEN {Step(EvStart(InnerTag(tag), <<>>),
                           [Push(rd, InnerTag(tag)) EXCEPT !.items = @ + 1,
                                                           !.leaf = "none"])}
                ELSE {})
               \cup (IF rd.items > 0 \/ lim.empty THEN close ELSE {})

\* Inside an item of a child element: the text of a collection item, the
\* end of a video, the <id>n</id> of a master's artist, or the
\* <title>text</title> of a track or of a master's video.
ItemSteps(lim, family, rd) ==
    LET tag == Top(rd)
        depth == Len(rd.stack)
    IN  IF KindShape(family, rd.stack[3]) = "nested"
        THEN IF depth = 4
             THEN IF rd.leaf = "none"
                  THEN {Step(EvStart("title", <<>>),
                             [Push(rd, "title") EXCEPT !.leaf = "open"])}
                  ELSE {Step(EvEnd(tag), Pop(rd))}
             ELSE IF rd.leaf = "open"
                  THEN {Step(EvText(ItemTable[rd.recs][rd.items]),
                             [rd EXCEPT !.leaf = "done"])}
                  ELSE {Step(EvEnd(tag), [Pop(rd) EXCEPT !.leaf = "closed"])}
        ELSE IF tag = "video" THEN {Step(EvEnd("video"), Pop(rd))}
        ELSE IF tag = "artist"
             THEN IF rd.leaf = "none"
                  THEN {Step(EvStart("id", <<>>), [Push(rd, "id") EXCEPT !.leaf = "open"])}
                  ELSE {Step(EvEnd("artist"), Pop(rd))}
        ELSE IF depth = 5
             THEN IF rd.leaf = "open"
                  THEN {Step(EvText(NumText(rd.items)),
                             [rd EXCEPT !.leaf = IF lim.split THEN "half" ELSE "done"])}
                  ELSE IF rd.leaf = "half"
                  THEN {Step(EvText(NumText(rd.items + 1)), [rd EXCEPT !.leaf = "done"])}
                  ELSE {Step(EvEnd(tag), [Pop(rd) EXCEPT !.leaf = "closed"])}
        ELSE IF rd.leaf = "open"
             THEN {Step(EvText(ItemTable[rd.recs][rd.items]), [rd EXCEPT !.leaf = "done"])}
             ELSE {Step(EvEnd(tag), Pop(rd))}

\* The tags and texts of the document the reader can deliver next, each
\* with the reader after it.
DocumentEvents(lim, family, rd) ==
    LET depth == Len(rd.stack) IN
    CASE rd.done -> {}
      [] depth = 0 -> {Step(EvStart(family, <<>>), Push(rd, family))}
      [] depth = 1 ->
           (IF rd.recs < lim.recs
            THEN {Step(EvStart(RecordTag(family), a),
                       [Push(rd, RecordTag(family)) EXCEPT !.recs = @ + 1, !.pos = 0]) :
                     a \in RecordAttrs(lim, family, rd.recs + 1)}
            ELSE {})
           \cup {Step(EvEnd(family), [Pop(rd) EXCEPT !.done = TRUE])}
      [] depth = 2 -> RecordSteps(lim, family, rd)
      [] depth = 3 -> ChildSteps(lim, family, rd)
      [] OTHER -> ItemSteps(lim, family, rd)

\* The events the reader can deliver next.  The reader does not trim text:
\* in an indented document (lim.space) the whitespace between two tags
\* comes as a Text event of its own, everywhere but inside an element that
\* holds text.
NextEvents(lim, family, rd) ==
    IF /\ lim.space /\ ~rd.ws /\ ~rd.done
       /\ Len(rd.stack) >= 1
       /\ rd.leaf \notin {"open", "half", "done"}
    THEN {Step(EvText(Whitespace), [rd EXCEPT !.ws = TRUE])}
    ELSE {Step(s.ev, [s.rd EXCEPT !.ws = FALSE]) : s \in DocumentEvents(lim, family, rd)}

(***************************************************************************)
(* What the document said, kept beside the run so that what is committed   *)
(* and written can be compared with it: one entry per record element, with *)
(* the child elements present, the scalar texts, the collection items and  *)
(* the label and video tags, in document order.                            *)
(***************************************************************************)
DocRecord(attrs) ==
    [attrs |-> attrs, present |-> {}, scalars |-> <<>>, items |-> <<>>,
     subs |-> <<>>]

DocAfter(d, family, rd, ev) ==
    LET depth == Len(rd.stack)
        n == Len(d)
    IN  IF depth = 1 /\ ev.type = "Start" THEN Append(d, DocRecord(ev.attrs))
        ELSE IF depth = 2 /\ ev.type = "Start"
             THEN [d EXCEPT ![n].present = @ \cup {ev.name}]
        ELSE IF ev.type = "Text" /\ ev.text = Whitespace THEN d
        ELSE IF depth = 3 /\ ev.type = "Text"
             THEN [d EXCEPT ![n].scalars = Append(@, <<Top(rd), ev.text>>)]
        ELSE IF depth = 3 /\ ev.type \in {"Empty", "Start"}
                /\ KindShape(family, Top(rd)) \in {"labels", "videos", "martists"}
             THEN [d EXCEPT ![n].subs = Append(@, [tag |-> ev.name, attrs |-> ev.attrs])]
        ELSE IF depth \in {4, 5} /\ ev.type = "Text"
             THEN [d EXCEPT ![n].items = Append(@, <<rd.stack[3], ev.text>>)]
        ELSE d

(***************************************************************************)
(* The driver: main and read_files.                                        *)
(***************************************************************************)
VARIABLES
    opt,         \* Opt: files (the family of each input file), batch_size, create_indexes
    lim,         \* the class of inputs explored in this run
    pc,          \* where read_files stands
    fileNo,      \* index of the file being loaded
    parser,      \* the Box<dyn Parser> of the current file: its kind and fields
    rd,          \* the XML reader's position in the current file
    db,          \* every bulk copy issued, in order
    ddl,         \* every DDL file executed, in order
    flushes,     \* number of write_* calls so far
    commits,     \* every End(<record-tag>) the parser committed, in order
    children,    \* every child row that entered a child map, in order
    doc,         \* the records of the current document as the reader delivered them
    dispatched,  \* number of events handed to process()
    lastRes,     \* how the last call of read_files returned: "ok", "err" or "panic"
    twin         \* a second parser of the same kind with a batch size of its own,
                 \* given the same events, and the records it committed

vars ==
    <<opt, lim, pc, fileNo, parser, rd, db, ddl, flushes, commits, children, doc,
      dispatched, lastRes, twin>>

ParserNew(family) ==
    CASE family = "artists" -> ArtistsParserNew
      [] family = "labels" -> LabelsParserNew
      [] family = "masters" -> MastersParserNew
      [] family = "releases" -> ReleasesParserNew

\* parser.process(ev) through the Parser trait object.
Process(kind, p, ev, batch_size, fault) ==
    CASE kind = "artists" -> ArtistsProcess(p, ev, batch_size, fault)
      [] kind = "labels" -> LabelsProcess(p, ev, batch_size, fault)
      [] kind = "masters" -> MastersProcess(p, ev, batch_size, fault)
      [] kind = "releases" -> ReleasesProcess(p, ev, batch_size, fault)

DdlFile(family) ==
    CASE family = "artists" -> "sql/tables/artist.sql"
      [] family = "labels" -> "sql/tables/label.sql"
      [] family = "masters" -> "sql/tables/master.sql"
      [] family = "releases" -> "sql/tables/release.sql"

\* Mutant: an Err is dropped and the loop goes on.
PropagateSkip(res, next) == IF res = "panic" THEN "panicked" ELSE next

\* The `?` after a call in read_files and main's handling of its result:
\* Ok continues at `next`, Err leaves through exit(1), a panic unwinds.
Propagate(res, next) ==
    IF res = "ok" THEN next ELSE IF res = "err" THEN "exit1" ELSE "panicked"

\* The parent map of a parser, its initial state and the key and row that
\* End(<record-tag>) commits.
ParentMap(kind, p) ==
    CASE kind = "artists" -> p.artists
      [] kind = "labels" -> p.labels
      [] kind = "masters" -> p.masters
      [] kind = "releases" -> p.releases

InitialState(kind) ==
    CASE kind = "artists" -> "Artist"
      [] kind = "labels" -> "ReadLabel"
      [] kind = "masters" -> "Master"
      [] kind = "releases" -> "Release"

CurrentKey(kind, p) ==
    CASE kind = "artists" -> p.current_artist.id
      [] kind = "labels" -> p.current_id
      [] kind = "masters" -> p.current_master.id
      [] kind = "releases" -> p.current_id

CurrentRecord(kind, p) ==
    CASE kind = "artists" -> p.current_artist
      [] kind = "labels" -> p.current_label
      [] kind = "masters" -> p.current_master
      [] kind = "releases" -> p.current_release

IsCommit(kind, p, ev) ==
    p.state = InitialState(kind) /\ ev.type = "End" /\ ev.name = RecordTag(kind)

\* The child maps of a parser, by target table.
ChildTables(kind) ==
    CASE kind = "masters" -> {"master_artist"}
      [] kind = "releases" -> {"release_label", "release_video"}
      [] OTHER -> {}

ChildMap(kind, p, table) ==
    CASE table = "master_artist" -> p.master_artists
      [] table = "release_label" -> p.release_labels
      [] table = "release_video" -> p.release_videos

\* The child rows a call of process() put into a child map: p before the
\* call, q after it.
ChildrenAdded(kind, p, q, file, rec, batch) ==
    LET added(t) == DOMAIN ChildMap(kind, q, t) \ DOMAIN ChildMap(kind, p, t)
        T == {t \in ChildTables(kind) : added(t) # {}}
    IN  IF T = {} THEN <<>>
        ELSE LET t == CHOOSE t \in T : TRUE
                 k == CHOOSE k \in added(t) : TRUE
             IN <<[table |-> t, key |-> k, row |-> ChildMap(kind, q, t)[k],
                   file |-> file, rec |-> rec, batch |-> batch]>>

\* Mutant: the parser is created without db::init.
DispatchNoDdl ==
    /\ pc = "dispatch"
    /\ pc' = "load"
    /\ parser' = [kind |-> opt.files[fileNo], p |-> ParserNew(opt.files[fileNo])]
    /\ rd' = ReaderNew
    /\ doc' = <<>>
    /\ UNCHANGED <<opt, lim, fileNo, db, ddl, flushes, commits, children, dispatched,
                   lastRes, twin>>

\* The first pass over a file: the first Start element names the family,
\* its DDL file is executed and the parser is created.
Dispatch ==
    /\ pc = "dispatch"
    /\ \E res \in lim.ddl :
         /\ ddl' = Append(ddl, [file |-> DdlFile(opt.files[fileNo]), status |-> res])
         /\ lastRes' = res
         /\ pc' = Propagate(res, "load")
    /\ parser' = [kind |-> opt.files[fileNo], p |-> ParserNew(opt.files[fileNo])]
    /\ rd' = ReaderNew
    /\ doc' = <<>>
    /\ UNCHANGED <<opt, lim, fileNo, db, flushes, commits, children, dispatched,
                   twin>>

\* The orders in which the copies of one write_* call can hand their rows
\* to the bulk writer, one order for each copy.  The order of a copy is
\* recorded in the classes of inputs that watch it (lim.hashed) and left
\* out, as the empty sequence, in the others.
CopyOrders(l, copies) ==
    IF l.hashed
    THEN {o \in [1..Len(copies) -> UNION {ValuesOrders(copies[i].data) :
                                             i \in 1..Len(copies)}] :
            \A i \in 1..Len(copies) : o[i] \in ValuesOrders(copies[i].data)}
    ELSE {[i \in 1..Len(copies) |-> <<>>]}

\* parser.process(ev)? on the event of reader step s, with the database
\* behaving as `fault` says.
Deliver(s, fault) ==
         LET r == Process(parser.kind, parser.p, s.ev, opt.batch_size, fault)
             n == Len(r.copies)
         IN  /\ parser' = [parser EXCEPT !.p = r.p]
             /\ rd' = s.rd
             /\ doc' = DocAfter(doc, parser.kind, rd, s.ev)
             /\ \E order \in CopyOrders(lim, r.copies) :
                  db' = db \o [i \in 1..n |->
                               [table |-> r.copies[i].table, data |-> r.copies[i].data,
                                order |-> order[i],
                                status |-> r.copies[i].status, flush |-> flushes + 1,
                                conn |-> <<flushes + 1, r.copies[i].conn>>,
                                file |-> fileNo]]
             /\ flushes' = IF r.wrote THEN flushes + 1 ELSE flushes
             /\ commits' = IF IsCommit(parser.kind, parser.p, s.ev)
                           THEN Append(commits,
                                       [rec |-> rd.recs, file |-> fileNo,
                                        key |-> CurrentKey(parser.kind, parser.p),
                                        row |-> CurrentRecord(parser.kind, parser.p),
                                        inserted |-> CurrentKey(parser.kind, parser.p)
                                            \notin DOMAIN ParentMap(parser.kind, parser.p),
                                        batch |-> flushes + 1])
                           ELSE commits
             /\ children' = children \o ChildrenAdded(parser.kind, parser.p, r.p,
                                                      fileNo, rd.recs, flushes + 1)
             /\ dispatched' = dispatched + 1
             /\ lastRes' = r.res
             /\ pc' = Propagate(r.res, "load")

\* The second pass: one event read and handed to parser.process(ev)?.
ProcessEvent ==
    /\ pc = "load"
    /\ \E s \in NextEvents(lim, parser.kind, rd), fault \in lim.faults :
         Deliver(s, fault)
    /\ UNCHANGED <<opt, lim, fileNo, ddl, twin>>

\* The twin parser after the same event: process() with the twin's batch
\* size, and the record it committed, if any.
TwinAfter(ev) ==
    LET r == Process(parser.kind, twin.p, ev, twin.batch_size, "none")
    IN  [twin EXCEPT
           !.p = r.p,
           !.commits =
              IF IsCommit(parser.kind, twin.p, ev)
              THEN Append(@, [key |-> CurrentKey(parser.kind, twin.p),
                              row |-> CurrentRecord(parser.kind, twin.p),
                              inserted |-> CurrentKey(parser.kind, twin.p)
                                  \notin DOMAIN ParentMap(parser.kind, twin.p)])
              ELSE @]

\* The second pass with the twin: each event read is handed to process() of
\* both parsers.
ProcessBoth ==
    /\ pc = "load"
    /\ \E s \in NextEvents(lim, parser.kind, rd), fault \in lim.faults :
         /\ Deliver(s, fault)
         /\ twin' = TwinAfter(s.ev)
    /\ UNCHANGED <<opt, lim, fileNo, ddl>>

\* Event::Eof ends the loop of the file; the next file follows, or the
\* indexes step.
ReadEof ==
    /\ pc = "load"
    /\ rd.done
    /\ fileNo' = fileNo + 1
    /\ pc' = IF fileNo < Len(opt.files) THEN "dispatch" ELSE "indexes"
    /\ UNCHANGED <<opt, lim, parser, rd, db, ddl, flushes, commits, children, doc,
                   dispatched, lastRes, twin>>

\* Mutant: the index DDL is executed whatever the flag.
IndexesAlways ==
    /\ pc = "indexes"
    /\ \E res \in lim.ddl :
         /\ ddl' = Append(ddl, [file |-> "sql/indexes.sql", status |-> res])
         /\ lastRes' = res
         /\ pc' = Propagate(res, "done")
    /\ UNCHANGED <<opt, lim, fileNo, parser, rd, db, flushes, commits, children, doc,
                   dispatched, twin>>

\* After the last file: the index DDL when --create-indexes is set.
Indexes ==
    /\ pc = "indexes"
    /\ IF opt.create_indexes
       THEN \E res \in lim.ddl :
              /\ ddl' = Append(ddl, [file |-> "sql/indexes.sql", status |-> res])
              /\ lastRes' = res
              /\ pc' = Propagate(res, "done")
       ELSE /\ pc' = "done"
            /\ UNCHANGED <<ddl, lastRes>>
    /\ UNCHANGED <<opt, lim, fileNo, parser, rd, db, flushes, commits, children, doc,
                   dispatched, twin>>

Next == Dispatch \/ ProcessEvent \/ ReadEof \/ Indexes

NextBoth == Dispatch \/ ProcessBoth \/ ReadEof \/ Indexes

\* Files that hold no Start element of a family: an empty document, a
\* document with another root element, a self-closing family root.
Strays == {"empty", "other", "selfclosing"}

\* The events the first pass reads from a file, before Eof: of a family's
\* file, those up to the root tag.
ScanEvents(file) ==
    CASE file = "empty" -> <<>>
      [] file = "other" -> <<EvStart("other", <<>>), EvEnd("other")>>
      [] file = "selfclosing" -> <<EvEmpty("artists", <<>>)>>
      [] OTHER -> <<EvStart(file, <<>>)>>

\* One turn of the first pass's loop: read_event()?, and when the event is
\* the Start of a family the DDL and the parser (Dispatch); any other event,
\* Eof included, is dropped and the loop turns again.  At the end of the
\* file the reader gives Eof at every read.
DispatchRead ==
    /\ pc = "dispatch"
    /\ LET r == IF rd.scan THEN rd ELSE [ReaderNew EXCEPT !.scan = TRUE]
           evs == ScanEvents(opt.files[fileNo])
           ev == IF r.pos < Len(evs) THEN evs[r.pos + 1] ELSE Ev("Eof", "", <<>>, "")
       IN  IF ev.type = "Start" /\ ev.name \in Families
           THEN Dispatch
           ELSE /\ rd' = [r EXCEPT !.pos = IF ev.type = "Eof" THEN @ ELSE @ + 1,
                                   !.done = r.pos + 1 >= Len(evs)]
                /\ UNCHANGED <<opt, lim, pc, fileNo, parser, db, ddl, flushes, commits,
                               children, doc, dispatched, lastRes, twin>>

NextScan == DispatchRead \/ ProcessEvent \/ ReadEof \/ Indexes

(***************************************************************************)
(* Input classes and initial states.                                       *)
(***************************************************************************)
\* Records with their key and one scalar, any id, every fault.
KeyedKinds ==
    [f \in Families |->
        CASE f = "artists" -> <<"id", "name">>
          [] f = "labels" -> <<"id", "name">>
          [] f = "masters" -> <<"title">>
          [] f = "releases" -> <<"title">>]

KeyedInputs ==
    [recs |-> MaxRecords, items |-> 0, children |-> 0, kinds |-> KeyedKinds,
     optional |-> FALSE, empty |-> FALSE, ids |-> "any", bad |-> TRUE, space |-> FALSE, split |-> FALSE, swap |-> FALSE, hashed |-> FALSE,
     labelIds |-> {}, faults |-> Faults,
     ddl |-> {"ok", "err", "panic"}]

InitWith(l, fileLists, batches, indexFlags) ==
    /\ lim = l
    /\ opt \in [files : fileLists, batch_size : batches, create_indexes : indexFlags]
    /\ pc = "dispatch"
    /\ fileNo = 1
    /\ parser = [kind |-> "none", p |-> [state |-> "none"]]
    /\ rd = ReaderNew
    /\ db = <<>>
    /\ ddl = <<>>
    /\ flushes = 0
    /\ commits = <<>>
    /\ children = <<>>
    /\ doc = <<>>
    /\ dispatched = 0
    /\ lastRes = "ok"
    /\ twin = [batch_size |-> opt.batch_size, p |-> [state |-> "none"],
               commits |-> <<>>]

Init ==
    InitWith(KeyedInputs, {<<f>> : f \in Families}, 1..MaxBatch, BOOLEAN)

Spec == Init /\ [][Next]_vars

\* Masters with their artists and releases with their labels and videos:
\* ids in document order, each child element absent or with its items, a
\* database that may fail on the copy of the first child table, and the
\* indexes created at the end.
ChildKinds ==
    [f \in Families |->
        CASE f = "masters" -> <<"artists">>
          [] f = "releases" -> <<"labels", "videos">>
          [] OTHER -> <<>>]

LabelIds == {1, 2}

ChildInputs ==
    [recs |-> MaxRichRecords, items |-> 0, children |-> MaxChildren,
     kinds |-> ChildKinds, optional |-> TRUE, empty |-> FALSE, ids |-> "ordinal",
     bad |-> FALSE, space |-> FALSE, split |-> FALSE, swap |-> FALSE, hashed |-> FALSE,
     labelIds |-> LabelIds, faults |-> {"none", "copy2"}, ddl |-> {"ok"}]

InitChildren ==
    InitWith(ChildInputs, {<<"masters">>, <<"releases">>}, 1..MaxBatch, {TRUE})

SpecChildren == InitChildren /\ [][Next]_vars

\* Masters and releases with children, every label tag with the same id
\* and its attributes in either order, a database without faults.
PositionInputs ==
    [ChildInputs EXCEPT !.swap = TRUE, !.labelIds = {1}, !.faults = {"none"}]

InitPositions ==
    InitWith(PositionInputs, {<<"masters">>, <<"releases">>}, 1..MaxBatch, {TRUE})

SpecPositions == InitPositions /\ [][Next]_vars

\* Masters and releases with children and any id, so that an id can come
\* twice in a batch; a database without faults.
RepeatInputs == [ChildInputs EXCEPT !.ids = "any", !.faults = {"none"}]

InitRepeat ==
    InitWith(RepeatInputs, {<<"masters">>, <<"releases">>}, 1..MaxBatch, {TRUE})

SpecRepeat == InitRepeat /\ [][Next]_vars

\* Records with scalar and collection elements, each of them optional:
\* ids in document order, no fault.
FieldsKinds ==
    [f \in Families |->
        CASE f = "artists" -> <<"id", "name", "urls">>
          [] f = "labels" -> <<"id", "sublabels", "urls">>
          [] f = "masters" -> <<"title">>
          [] f = "releases" -> <<"title", "genres", "styles">>]

FieldsInputs ==
    [recs |-> MaxRichRecords, items |-> MaxItems, children |-> 0,
     kinds |-> FieldsKinds, optional |-> TRUE, empty |-> FALSE, ids |-> "ordinal",
     bad |-> FALSE, space |-> FALSE, split |-> FALSE, swap |-> FALSE, hashed |-> FALSE, labelIds |-> {}, faults |-> {"none"}, ddl |-> {"ok"}]

InitFields ==
    InitWith(FieldsInputs, {<<f>> : f \in Families}, 1..MaxBatch, BOOLEAN)

SpecFields == InitFields /\ [][Next]_vars

\* Masters and releases with children whose tags may lack attributes or
\* carry an id that is no number, and DDL that may fail.
AttrInputs ==
    [ChildInputs EXCEPT !.bad = TRUE, !.faults = {"none"},
                        !.ddl = {"ok", "err", "panic"}]

InitAttrs ==
    InitWith(AttrInputs, {<<"masters">>, <<"releases">>}, 1..MaxBatch, BOOLEAN)

SpecAttrs == InitAttrs /\ [][Next]_vars

\* Several input files on the command line, artists and releases in any
\* order, with texts that do not parse, every database fault and DDL that
\* may fail.
DriverKinds ==
    [f \in Families |->
        CASE f = "artists" -> <<"id">>
          [] f = "releases" -> <<"title">>
          [] OTHER -> <<>>]

DriverInputs ==
    [recs |-> MaxRichRecords, items |-> 0, children |-> 0, kinds |-> DriverKinds,
     optional |-> FALSE, empty |-> FALSE, ids |-> "ordinal", bad |-> TRUE, space |-> FALSE, split |-> FALSE, swap |-> FALSE, hashed |-> FALSE,
     labelIds |-> {}, faults |-> Faults, ddl |-> {"ok", "err", "panic"}]

FileLists == UNION {[1..n -> {"artists", "releases"}] : n \in 1..MaxFiles}

InitDriver == InitWith(DriverInputs, FileLists, 1..MaxBatch, BOOLEAN)

SpecDriver == InitDriver /\ [][Next]_vars

\* One file or more, each of them artists or a file without the Start
\* element of a family, read event by event in the first pass; the loops of
\* read_files run on as long as they can.
ScanInputs == [DriverInputs EXCEPT !.bad = FALSE, !.faults = {"none"}]

ScanLists == UNION {[1..n -> {"artists"} \cup Strays] : n \in 1..MaxFiles}

InitScan == InitWith(ScanInputs, ScanLists, 1..MaxBatch, BOOLEAN)

SpecScan == InitScan /\ [][NextScan]_vars /\ WF_vars(NextScan)

\* Records that hold an element with the name of the family's root, ids in
\* document order, a database without faults.
AgainKinds ==
    [f \in Families |->
        CASE f = "artists" -> <<"id", "artists">>
          [] f = "labels" -> <<"id", "labels">>
          [] f = "masters" -> <<"title", "masters">>
          [] f = "releases" -> <<"title", "releases">>]

AgainInputs == [FieldsInputs EXCEPT !.kinds = AgainKinds, !.optional = FALSE]

InitAgain ==
    InitWith(AgainInputs, {<<"artists">>, <<"masters">>, <<"releases">>},
             1..MaxBatch, {TRUE})

SpecAgain == InitAgain /\ [][Next]_vars

\* Records whose collection and child elements may each be absent, hold
\* items, or be written as a start tag followed at once by the end tag.
ShapesKinds ==
    [f \in Families |->
        CASE f = "artists" -> <<"id", "urls", "namevariations">>
          [] f = "labels" -> <<"id", "urls", "sublabels">>
          [] f = "masters" -> <<"artists", "title">>
          [] f = "releases" -> <<"genres", "labels", "videos">>]

ShapesInputs ==
    [recs |-> MaxRichRecords, items |-> MaxItems, children |-> MaxChildren,
     kinds |-> ShapesKinds, optional |-> TRUE, empty |-> TRUE, ids |-> "ordinal",
     bad |-> FALSE, space |-> FALSE, split |-> FALSE, swap |-> FALSE, hashed |-> FALSE, labelIds |-> {1}, faults |-> {"none"}, ddl |-> {"ok"}]

InitShapes ==
    InitWith(ShapesInputs, {<<f>> : f \in Families}, 1..MaxBatch, {TRUE})

SpecShapes == InitShapes /\ [][Next]_vars

\* Releases with a tracklist and masters with videos after their title:
\* elements neither parser has a state for, whose items carry a title.
NestedKinds ==
    [f \in Families |->
        CASE f = "masters" -> <<"title", "videos">>
          [] f = "releases" -> <<"title", "tracklist">>
          [] OTHER -> <<>>]

NestedInputs ==
    [recs |-> MaxRichRecords, items |-> 0, children |-> MaxChildren,
     kinds |-> NestedKinds, optional |-> TRUE, empty |-> FALSE, ids |-> "ordinal",
     bad |-> FALSE, space |-> FALSE, split |-> FALSE, swap |-> FALSE, hashed |-> FALSE, labelIds |-> {}, faults |-> {"none"}, ddl |-> {"ok"}]

InitNested ==
    InitWith(NestedInputs, {<<"masters">>, <<"releases">>}, 1..MaxBatch, BOOLEAN)

SpecNested == InitNested /\ [][Next]_vars

\* Indented documents: the records of FieldsInputs with whitespace between
\* the tags.
SpacesInputs == [FieldsInputs EXCEPT !.space = TRUE, !.optional = FALSE]

InitSpaces ==
    InitWith(SpacesInputs, {<<f>> : f \in Families}, 1..MaxBatch, BOOLEAN)

SpecSpaces == InitSpaces /\ [][Next]_vars

\* Scalar elements whose text comes in two Text events: the scalars of the
\* four records and the id of a master's artist.
SplitKinds ==
    [f \in Families |->
        CASE f = "artists" -> <<"id", "name">>
          [] f = "labels" -> <<"id", "name">>
          [] f = "masters" -> <<"artists", "title">>
          [] f = "releases" -> <<"title", "master_id">>]

SplitInputs ==
    [ChildInputs EXCEPT !.kinds = SplitKinds, !.split = TRUE, !.optional = FALSE,
                        !.faults = {"none"}]

InitSplit ==
    InitWith(SplitInputs, {<<f>> : f \in Families}, 1..MaxBatch, BOOLEAN)

SpecSplit == InitSplit /\ [][Next]_vars

\* Records that each hold their collections with one item or more: the
\* urls of artists, the sublabels of labels, the genres and styles of
\* masters and of releases.
CollectionKinds ==
    [f \in Families |->
        CASE f = "artists" -> <<"id", "urls">>
          [] f = "labels" -> <<"id", "sublabels">>
          [] f = "masters" -> <<"genres", "styles">>
          [] f = "releases" -> <<"genres", "styles">>]

CollectionInputs ==
    [FieldsInputs EXCEPT !.kinds = CollectionKinds, !.optional = FALSE]

InitCollections ==
    InitWith(CollectionInputs, {<<f>> : f \in Families}, 1..MaxBatch, {TRUE})

SpecCollections == InitCollections /\ [][Next]_vars

\* Artists whose records hold name variations, aliases, members and urls,
\* each with its items.
ArtistKinds ==
    [f \in Families |-> <<"id", "namevariations", "aliases", "members", "urls">>]

ArtistInputs ==
    [FieldsInputs EXCEPT !.recs = MaxArtists, !.kinds = ArtistKinds,
                         !.optional = FALSE]

InitArtists == InitWith(ArtistInputs, {<<"artists">>}, 1..MaxBatch, {TRUE})

SpecArtists == InitArtists /\ [][Next]_vars

\* One file given to two parsers of its family that differ in batch size:
\* records with any id, each scalar present or absent, a database without
\* faults.
PurityInputs ==
    [recs |-> MaxRichRecords, items |-> 0, children |-> 0, kinds |-> KeyedKinds,
     optional |-> TRUE, empty |-> FALSE, ids |-> "any", bad |-> FALSE, space |-> FALSE, split |-> FALSE, swap |-> FALSE, hashed |-> FALSE,
     labelIds |-> {}, faults |-> {"none"}, ddl |-> {"ok"}]

InitPurity ==
    /\ lim = PurityInputs
    /\ opt \in [files : {<<f>> : f \in {"artists", "masters", "releases"}},
                 batch_size : 1..MaxBatch, create_indexes : {TRUE}]
    /\ pc = "dispatch"
    /\ fileNo = 1
    /\ parser = [kind |-> "none", p |-> [state |-> "none"]]
    /\ rd = ReaderNew
    /\ db = <<>>
    /\ ddl = <<>>
    /\ flushes = 0
    /\ commits = <<>>
    /\ children = <<>>
    /\ doc = <<>>
    /\ dispatched = 0
    /\ lastRes = "ok"
    /\ \E b \in 1..MaxBatch :
         twin = [batch_size |-> b, p |-> ParserNew(opt.files[1]), commits |-> <<>>]

SpecPurity == InitPurity /\ [][NextBoth]_vars

\* Records with any id and a database without faults, the order of the
\* rows of each copy watched.
OrderInputs == [PurityInputs EXCEPT !.optional = FALSE, !.hashed = TRUE]

InitOrder == InitWith(OrderInputs, {<<f>> : f \in Families}, 1..MaxBatch, {TRUE})

SpecOrder == InitOrder /\ [][Next]_vars

(***************************************************************************)
(* Properties.                                                             *)
(***************************************************************************)
ParentTable(family) == RecordTag(family)

Min(a, b) == IF a < b THEN a ELSE b

\* The commits of file f and the bulk copies of its parent table, in order.
CommitsOf(f) == LET in(c) == c.file = f IN SelectSeq(commits, in)
ParentCopies(f) ==
    LET in(c) == c.file = f /\ c.table = ParentTable(opt.files[f])
    IN SelectSeq(db, in)
ChildCopies(f) ==
    LET in(c) == c.file = f /\ c.table # ParentTable(opt.files[f])
    IN SelectSeq(db, in)

\* The files whose load has begun, and whether file f was read to its end.
FilesBegun == 1..Min(IF pc = "dispatch" THEN fileNo - 1 ELSE fileNo, Len(opt.files))
ReadToEnd(f) == f < fileNo \/ (f = fileNo /\ rd.done)
Running == lastRes = "ok" /\ pc \in {"load", "indexes", "done"}

\* Indexes of the commits of a sequence with key k in batch b, and the
\* first of them.
SameKey(C, k, b) == {i \in 1..Len(C) : C[i].key = k /\ C[i].batch = b}
First(S) == CHOOSE i \in S : \A j \in S : i <= j

\* C1: when End(<record-tag>) commits a record whose key is already in the
\* parent map of the current batch, the parent map is left unchanged, so the
\* row stored for the key stays the one of the first occurrence.
C1_DuplicateKeyLeavesMap ==
    [][(/\ Len(commits') = Len(commits) + 1
        /\ ~commits'[Len(commits')].inserted)
       => ParentMap(parser'.kind, parser'.p) = ParentMap(parser.kind, parser.p)]_vars

\* C1 witness: a second record with the key of an earlier one of the same
\* batch and another row was committed, and the bulk copy of that batch
\* carries the row of the first.
C1_Witness ==
    \E j \in 1..Len(commits), c \in 1..Len(db) :
        /\ ~commits[j].inserted
        /\ LET i == First(SameKey(commits, commits[j].key, commits[j].batch))
           IN /\ i < j
              /\ commits[i].row # commits[j].row
              /\ db[c].flush = commits[j].batch
              /\ db[c].status = "committed"
              /\ commits[j].key \in DOMAIN db[c].data
              /\ db[c].data[commits[j].key] = commits[i].row

\* C2 as stated: of the records with one primary key, wherever they stand
\* in the stream, only the first is ever handed to the bulk writer.
C2_FirstOccurrenceOnlyAnywhere ==
    \A f \in FilesBegun :
      LET C == CommitsOf(f)
          P == ParentCopies(f)
      IN \A x \in 1..Len(P) : \A k \in DOMAIN P[x].data :
            /\ P[x].data[k] = C[First({i \in 1..Len(C) : C[i].key = k})].row
            /\ \A y \in 1..Len(P) : y # x => k \notin DOMAIN P[y].data

\* C2 amended: of the records with one primary key committed in one batch
\* (no threshold flush between them), only the first is handed to the bulk
\* writer; each bulk copy carries, for every key, the row of the first
\* occurrence of the key in its batch.
C2_FirstOccurrenceOnlyInBatch ==
    \A f \in FilesBegun :
      LET C == CommitsOf(f)
          P == ParentCopies(f)
      IN \A x \in 1..Len(P) :
            /\ DOMAIN P[x].data = {C[i].key : i \in {i \in 1..Len(C) : C[i].batch = P[x].flush}}
            /\ \A k \in DOMAIN P[x].data :
                 P[x].data[k] = C[First(SameKey(C, k, P[x].flush))].row

\* C2 witness: a key was committed twice in one batch with different rows;
\* the bulk copy of the batch was issued with the row of the first, and no
\* bulk copy carries the row of the second.
C2_Witness ==
    \E x \in 1..Len(db), i, j \in 1..Len(commits) :
        /\ i < j
        /\ commits[i].key = commits[j].key
        /\ commits[i].batch = db[x].flush /\ commits[j].batch = db[x].flush
        /\ commits[i].row # commits[j].row
        /\ db[x].status = "committed"
        /\ commits[i].row \in Values(db[x].data)
        /\ \A y \in 1..Len(db) : commits[j].row \notin Values(db[y].data)

\* C4: for records with distinct keys, the parent table gets one bulk copy
\* each time the parent map reaches batch_size right after a commit and one
\* at End(<family-tag>); the k-th copy holds the records (k-1)*B+1 .. k*B of
\* the document, the last one the records that remain.
DistinctKeys(C) == \A i, j \in 1..Len(C) : C[i].key = C[j].key => i = j

C4_FlushBoundaries ==
    Running =>
      \A f \in FilesBegun :
        LET C == CommitsOf(f)
            P == ParentCopies(f)
            B == opt.batch_size
        IN DistinctKeys(C) =>
             /\ Len(P) = (Len(C) \div B) + (IF ReadToEnd(f) THEN 1 ELSE 0)
             /\ \A k \in 1..Len(P) :
                  DOMAIN P[k].data =
                    {C[i].key : i \in ((k - 1) * B + 1)..Min(k * B, Len(C))}

\* C4 witness: batch size 2 and three records with distinct keys were read
\* to the end: two bulk copies, of two records and then of one.
C4_Witness ==
    /\ pc = "done"
    /\ opt.batch_size = 2
    /\ Len(commits) = 3
    /\ DistinctKeys(commits)
    /\ Len(db) = 2
    /\ \A x \in 1..2 : db[x].status = "committed"
    /\ DOMAIN db[1].data = {commits[1].key, commits[2].key}
    /\ DOMAIN db[2].data = {commits[3].key}

\* The tables a family loads, the parent-id column of a child row, and
\* the rows of table t written (copies that were committed) and committed
\* (rows that entered the parser's map of t) during file f.
TablesOf(family) == {ParentTable(family)} \cup ChildTables(family)

ParentId(table, row) ==
    IF table = "master_artist" THEN row.master_id ELSE row.release_id

RowsWritten(f, t) ==
    UNION {Values(db[x].data) :
             x \in {x \in 1..Len(db) : /\ db[x].file = f
                                        /\ db[x].table = t
                                        /\ db[x].status = "committed"}}

RowsCommitted(f, t) ==
    IF t = ParentTable(opt.files[f])
    THEN {commits[i].row :
            i \in {i \in 1..Len(commits) : commits[i].file = f /\ commits[i].inserted}}
    ELSE {children[i].row :
            i \in {i \in 1..Len(children) : children[i].file = f /\ children[i].table = t}}

\* C3: while the load runs without error no row is written that the parser
\* did not commit, and once a file was read to its end without error the
\* rows written to each of its tables, parent and child, over all flushes
\* are exactly the rows the parser committed, whatever the batch size.
C3_BatchingFaithfulness ==
    Running =>
      \A f \in FilesBegun : \A t \in TablesOf(opt.files[f]) :
          /\ RowsWritten(f, t) \subseteq RowsCommitted(f, t)
          /\ ReadToEnd(f) => RowsWritten(f, t) = RowsCommitted(f, t)

\* C3 witness: a load that ended without error after a threshold flush and
\* the final flush, both with parent rows, and with child rows written.
C3_Witness ==
    /\ pc = "done" /\ lastRes = "ok"
    /\ \E x, y \in 1..Len(db) :
          /\ db[x].flush < db[y].flush
          /\ db[x].table = ParentTable(opt.files[1]) /\ db[x].data # HashMapNew
          /\ db[y].table = ParentTable(opt.files[1]) /\ db[y].data # HashMapNew
    /\ \E t \in ChildTables(opt.files[1]) :
          /\ RowsWritten(1, t) # {}
          /\ RowsWritten(1, t) = RowsCommitted(1, t)

\* C5: every child row handed to the bulk writer carries in its parent-id
\* column the id of a parent record committed in the batch of that flush
\* or in an earlier one, and the record the child row came from was
\* committed no later than the flush that carries the child row.
C5_ChildParentLocality ==
    \A x \in 1..Len(db) :
      db[x].table \in ChildTables(opt.files[db[x].file]) =>
        \A k \in DOMAIN db[x].data :
          LET row == db[x].data[k] IN
          /\ \E i \in 1..Len(commits) :
                /\ commits[i].file = db[x].file
                /\ commits[i].key = ParentId(db[x].table, row)
                /\ commits[i].batch <= db[x].flush
          /\ \A j \in 1..Len(children) :
                (/\ children[j].file = db[x].file
                 /\ children[j].table = db[x].table
                 /\ children[j].row = row)
                => \E i \in 1..Len(commits) :
                      /\ commits[i].file = db[x].file
                      /\ commits[i].rec = children[j].rec
                      /\ commits[i].batch <= db[x].flush

\* C5 witness: after an earlier flush, a child copy was written whose row
\* belongs to a parent committed in the batch of that copy.
C5_Witness ==
    \E x \in 1..Len(db), i \in 1..Len(commits) :
        /\ db[x].table \in ChildTables(opt.files[db[x].file])
        /\ db[x].status = "committed"
        /\ db[x].flush > 1
        /\ commits[i].batch = db[x].flush
        /\ \E k \in DOMAIN db[x].data :
              ParentId(db[x].table, db[x].data[k]) = commits[i].key

\* The release_label rows the label tags of the document stand for: one per
\* <label name catno id/> tag, bound to the release that contains it.
LabelTagRows ==
    UNION {{[release_id |-> ParseI32(doc[n].attrs[1]).val,
             label |-> doc[n].subs[k].attrs[1],
             catno |-> doc[n].subs[k].attrs[2],
             label_id |-> ParseI32(doc[n].subs[k].attrs[3]).val] :
              k \in {k \in 1..Len(doc[n].subs) : doc[n].subs[k].tag = "label"}} :
           n \in 1..Len(doc)}

\* C9: once a releases file was read to its end without error, every
\* <label/> tag of every release has exactly one release_label row in the
\* database, whatever label ids the other label tags of its batch carry.
C9_EveryLabelTagOneRow ==
    (/\ Running /\ pc \in {"indexes", "done"}
     /\ opt.files[Len(opt.files)] = "releases")
    => /\ RowsWritten(Len(opt.files), "release_label") = LabelTagRows
       /\ \A x, y \in 1..Len(db) :
             (/\ db[x].table = "release_label" /\ db[y].table = "release_label"
              /\ x # y)
             => Values(db[x].data) \cap Values(db[y].data) = {}

\* The XML subelement a column of a family's parent row is read from, the
\* default of a column by its type, and whether the row of the i-th commit
\* was handed to the bulk writer.
ElementFields(family) ==
    CASE family = "artists" ->
           {"id", "name", "real_name", "profile", "data_quality", "name_variations",
            "urls", "aliases", "members"}
      [] family = "labels" ->
           {"name", "contactinfo", "profile", "parent_label", "sublabels", "urls",
            "data_quality"}
      [] family = "masters" ->
           {"title", "release_id", "year", "notes", "genres", "styles", "data_quality"}
      [] family = "releases" ->
           {"title", "country", "released", "notes", "genres", "styles", "master_id",
            "data_quality"}

ElementTag(field) ==
    CASE field = "real_name" -> "realname"
      [] field = "name_variations" -> "namevariations"
      [] field = "release_id" -> "main_release"
      [] OTHER -> field

Default(field) ==
    CASE FieldType(field) = "INT4" -> 0
      [] FieldType(field) = "TEXT" -> ""
      [] FieldType(field) = "TEXT_ARRAY" -> <<>>

Handed(i) ==
    \E x \in 1..Len(db) :
        /\ db[x].file = commits[i].file
        /\ db[x].flush = commits[i].batch
        /\ db[x].table = ParentTable(opt.files[commits[i].file])
        /\ commits[i].key \in DOMAIN db[x].data
        /\ db[x].data[commits[i].key] = commits[i].row

\* The commits of the document the reader is at, or was at last.
DocCommits == {i \in 1..Len(commits) : commits[i].file = Min(fileNo, Len(opt.files))}

\* The texts of the items of collection tag in record d, in document order.
ItemsOf(d, tag) ==
    LET in(e) == e[1] = tag
        S == SelectSeq(d.items, in)
    IN [k \in 1..Len(S) |-> ParseString(S[k][2]).val]

\* C6: every row handed to the bulk writer has, in each column whose XML
\* subelement is absent from its record, the default of the column's type,
\* also when the record follows other records.
C6_AbsentElementsDefault ==
    \A i \in DocCommits :
      Handed(i) =>
        \A field \in ElementFields(opt.files[commits[i].file]) :
          ElementTag(field) \notin doc[commits[i].rec].present
            => commits[i].row[field] = Default(field)

\* C7: every row handed to the bulk writer has, in each collection column,
\* the texts of all the item elements of its record, in document order.
C7_CollectionsInDocumentOrder ==
    \A i \in DocCommits :
      Handed(i) =>
        \A field \in ElementFields(opt.files[commits[i].file]) :
          (FieldType(field) = "TEXT_ARRAY" /\ field # "name_variations")
            => commits[i].row[field] = ItemsOf(doc[commits[i].rec], ElementTag(field))

\* The column a value of to_sql is meant for: the field's name, the id
\* of a master's artist being the column artist_id.
ColumnOf(table, field) ==
    IF table = "master_artist" /\ field = "id" THEN "artist_id" ELSE field

\* C8: for every table that gets a non-empty bulk copy, the values to_sql
\* returns are as many as the columns of the copy and match them position
\* by position in name and type, and the copy serialises its rows.
C8_ToSqlMatchesColumns ==
    \A x \in 1..Len(db) :
      db[x].data # HashMapNew =>
        LET t == db[x].table IN
        /\ Len(ToSqlFields(t)) = Len(ColNames(t))
        /\ ToSqlTypes(t) = ColTypes(t)
        /\ \A k \in 1..Min(Len(ToSqlFields(t)), Len(ColNames(t))) :
              ColumnOf(t, ToSqlFields(t)[k]) = ColNames(t)[k]
        /\ db[x].status # "panicked"

\* C10: once a call of read_files returned an error, the load is over: no
\* further event is dispatched, no further bulk copy or flush is issued, no
\* later file is begun, no DDL (the indexes included) is executed, and the
\* process is on its way out with exit code 1.
C10_ErrorAbortsLoad ==
    /\ [](lastRes = "err" => pc = "exit1")
    /\ [][lastRes = "err" =>
            /\ dispatched' = dispatched
            /\ db' = db
            /\ flushes' = flushes
            /\ fileNo' = fileNo
            /\ ddl' = ddl]_vars

\* C10 witness: a bulk copy failed during the first of several files of a
\* load that was to create the indexes; the load stopped there, with the
\* later files not begun and the index DDL not executed.
C10_Witness ==
    /\ pc = "exit1" /\ lastRes = "err"
    /\ opt.create_indexes
    /\ fileNo = 1 /\ Len(opt.files) > 1
    /\ dispatched > 0
    /\ Len(db) > 0 /\ db[Len(db)].status = "failed"
    /\ \A k \in 1..Len(ddl) : ddl[k].file # "sql/indexes.sql"
    /\ Len(ddl) = 1

\* The attributes a tag must carry, and whether the tag the reader
\* delivered last (a record's opening tag, a label tag or a video tag)
\* lacks one of them.
RequiredAttrs(tag) ==
    CASE tag = "release" -> 2
      [] tag = "master" -> 1
      [] tag = "label" -> 3
      [] tag = "video" -> 2
      [] OTHER -> 0

LastTagLacksAttr ==
    /\ parser.kind \in Families
    /\ Len(doc) > 0
    /\ LET d == doc[Len(doc)] IN
       IF d.subs = <<>>
       THEN Len(d.attrs) < RequiredAttrs(RecordTag(parser.kind))
       ELSE Len(d.subs[Len(d.subs)].attrs) < RequiredAttrs(d.subs[Len(d.subs)].tag)

\* C11: a tag that lacks a mandatory attribute and a DDL execution that
\* fails end the load by an error value returned to the caller, never by
\* a panic.
C11_FailuresReturnErrors ==
    /\ \A k \in 1..Len(ddl) : ddl[k].status # "panic"
    /\ LastTagLacksAttr => lastRes # "panic"

\* The two entry points of the repository and the exit code each main
\* gives for the result of its load: discogs-load/src/main.rs leaves
\* through exit(1) on Err and returns Ok(()) otherwise; the earlier
\* src/main.rs prints the error and returns Ok(()) in both cases.  A
\* panic ends the process with code 101.
EntryPoints == {"discogs-load/src/main.rs", "src/main.rs"}

ExitCode(entry, res) ==
    IF res = "panic" THEN 101
    ELSE IF entry = "discogs-load/src/main.rs"
         THEN IF res = "err" THEN 1 ELSE 0
         ELSE 0

\* The loads an entry point can make: the earlier one loads one releases
\* file and creates no indexes.
Loads(entry) ==
    entry = "src/main.rs" => (opt.files = <<"releases">> /\ ~opt.create_indexes)

\* C12: when the load is over, the exit code is 0 if it returned without
\* error and non-zero if it returned an error, in both entry points.
C12_ExitCodes ==
    pc \in {"done", "exit1"} =>
      \A entry \in EntryPoints :
        Loads(entry) =>
          /\ lastRes = "ok" => ExitCode(entry, lastRes) = 0
          /\ lastRes = "err" => ExitCode(entry, lastRes) # 0

\* The bulk copies of flush fl, in the order they were issued.
CopiesOfFlush(fl) == LET in(c) == c.flush = fl IN SelectSeq(db, in)

\* C13: a flush is atomic: when the copy of a later table of a flush did
\* not commit, no row of a table copied earlier in that flush is committed.
C13_FlushAtomic ==
    \A x, y \in 1..Len(db) :
      (/\ x < y
       /\ db[x].flush = db[y].flush
       /\ db[y].status # "committed")
      => (db[x].status # "committed" \/ db[x].data = HashMapNew)

\* The tables of a family in the order a flush is to copy them: the
\* parent table, then the child tables.
FlushOrder(family) ==
    CASE family = "releases" -> <<"release", "release_label", "release_video">>
      [] family = "masters" -> <<"master", "master_artist">>
      [] family = "artists" -> <<"artist">>
      [] family = "labels" -> <<"label">>

\* C14: the copies of one flush all go over one connection, which no
\* other flush uses; they are the tables of the family in the order parent
\* table, child tables, each table once, up to the copy that failed; a
\* flush that returned without error has copied every table.
C14_OneConnectionParentFirst ==
    \A fl \in 1..flushes :
      LET S == CopiesOfFlush(fl) IN
      /\ \A i, j \in 1..Len(S) : S[i].conn = S[j].conn /\ S[i].file = S[j].file
      /\ \A x \in 1..Len(db) :
            (S # <<>> /\ db[x].conn = S[1].conn) => db[x].flush = fl
      /\ S # <<>> =>
            LET order == FlushOrder(opt.files[S[1].file]) IN
            /\ Len(S) <= Len(order)
            /\ \A i \in 1..Len(S) : S[i].table = order[i]
            /\ (\A i \in 1..Len(S) : S[i].status = "committed")
                 => Len(S) = Len(order)
      /\ Running => /\ S # <<>>
                    /\ Len(S) = Len(FlushOrder(opt.files[S[1].file]))

\* A flush of the releases family whose three copies committed, over one
\* connection, in the order release, release_label, release_video, with
\* rows in each table.
C14_Witness ==
    \E fl \in 1..flushes :
      LET S == CopiesOfFlush(fl) IN
      /\ Len(S) = 3
      /\ S[1].table = "release" /\ S[2].table = "release_label"
      /\ S[3].table = "release_video"
      /\ \A i \in 1..3 : /\ S[i].status = "committed"
                          /\ S[i].data # HashMapNew
                          /\ S[i].conn = S[1].conn

\* The DDL file that creates the tables of a family.
FamilyDdl ==
    [artists |-> "sql/tables/artist.sql", labels |-> "sql/tables/label.sql",
     masters |-> "sql/tables/master.sql", releases |-> "sql/tables/release.sql"]

\* The table DDL of file f has been executed and succeeded.
DdlDone(f) ==
    /\ Len(ddl) >= f
    /\ ddl[f].file = FamilyDdl[opt.files[f]]
    /\ ddl[f].status = "ok"

\* C15: for each input file the DDL file of its family is executed before
\* any event of the file is processed and before any bulk copy of the file:
\* every copy issued belongs to a file whose DDL has succeeded, and a step
\* that processes an event or issues a copy starts with the DDL of the
\* current file executed with success.
C15_DdlBeforeEventsAndCopies ==
    /\ [](\A x \in 1..Len(db) : DdlDone(db[x].file))
    /\ [][(dispatched' # dispatched \/ db' # db) => DdlDone(fileNo)]_vars

\* The second of two files has had rows copied, after the table DDL of
\* both files succeeded.
C15_Witness ==
    /\ Len(opt.files) = 2 /\ opt.files[1] # opt.files[2]
    /\ DdlDone(1) /\ DdlDone(2)
    /\ \E x \in 1..Len(db) :
         db[x].file = 2 /\ db[x].data # HashMapNew /\ db[x].status = "committed"

\* The executions of the index DDL.
IndexRuns == {k \in 1..Len(ddl) : ddl[k].file = "sql/indexes.sql"}

\* C16: the index DDL is executed at most once, only with --create-indexes,
\* and only after every file was read to Eof without error: it is the last
\* DDL executed, every file's table DDL before it succeeded, and once it is
\* executed no event is processed, no copy issued and no DDL executed.
C16_IndexesOnceAtEnd ==
    /\ [](/\ Cardinality(IndexRuns) <= 1
          /\ IndexRuns # {} =>
                /\ opt.create_indexes
                /\ IndexRuns = {Len(ddl)}
                /\ Len(ddl) = Len(opt.files) + 1
                /\ fileNo = Len(opt.files) + 1
                /\ \A f \in 1..Len(opt.files) : DdlDone(f) /\ ReadToEnd(f)
                /\ \A x \in 1..Len(db) : db[x].status = "committed")
    /\ [][IndexRuns' # IndexRuns => lastRes = "ok" /\ rd.done]_vars
    /\ [][IndexRuns # {} =>
            db' = db /\ dispatched' = dispatched /\ ddl' = ddl]_vars

\* A load of two files with --create-indexes that ended with the index DDL
\* executed, after copies of both files.
C16_Witness ==
    /\ pc = "done" /\ lastRes = "ok"
    /\ Len(opt.files) = 2
    /\ IndexRuns = {3} /\ ddl[3].status = "ok"
    /\ \A f \in 1..2 : \E x \in 1..Len(db) : db[x].file = f /\ db[x].data # HashMapNew

\* The records a sequence of commits put into the sink, as a multiset: how
\* many times each row was inserted.
SinkBag(C) ==
    LET ins == {i \in 1..Len(C) : C[i].inserted}
    IN [r \in {C[i].row : i \in ins} |->
          Cardinality({i \in ins : C[i].row = r})]

\* The records handed to commit, in order.
Rows(C) == [i \in 1..Len(C) |-> C[i].row]

\* C17 as stated: after the same events, a parser with batch size B1 and a
\* parser with batch size B2 have put the same multiset of records into
\* the sink.
C17_SinkIndependentOfBatchSize ==
    SinkBag(commits) = SinkBag(twin.commits)

\* C17 as it holds: after the same events the two parsers have handed the
\* same records to commit in the same order, and when no primary key
\* occurs twice among them the same multiset of records entered the sink.
C17_CommitsIndependentOfBatchSize ==
    /\ Rows(commits) = Rows(twin.commits)
    /\ DistinctKeys(commits) => SinkBag(commits) = SinkBag(twin.commits)

\* Two records with distinct keys read to the end by a parser with batch
\* size 1, which flushed after each, and a parser with batch size 2: both
\* put the two records into the sink.
C17_Witness ==
    /\ rd.done /\ lastRes = "ok"
    /\ opt.batch_size = 1 /\ twin.batch_size = 2
    /\ Len(commits) = 2 /\ Len(twin.commits) = 2
    /\ DistinctKeys(commits)
    /\ \A i \in 1..2 : commits[i].inserted /\ twin.commits[i].inserted
    /\ flushes = 3

\* The record elements of the current file whose end tag has been handed
\* to the parser.
RecordsClosed == rd.recs - (IF Len(rd.stack) >= 2 THEN 1 ELSE 0)

\* C18: every End(<record-tag>) that closes a record is processed in the
\* initial state and commits the record, whatever child elements the
\* record has: while the load runs, the commits of the current file are as
\* many as the record elements closed so far.
C18_EveryRecordCommitted ==
    (Running /\ pc = "load") => Len(CommitsOf(fileNo)) = RecordsClosed

\* The maps of the current parser, by target table.
SinkMaps ==
    [t \in {ParentTable(parser.kind)} \cup ChildTables(parser.kind) |->
        IF t = ParentTable(parser.kind) THEN ParentMap(parser.kind, parser.p)
        ELSE ChildMap(parser.kind, parser.p, t)]

\* C19: End(<family-tag>) is processed in the initial state and triggers a
\* flush: the step that delivers it starts in the initial state and is a
\* call of the bulk writer, and when the file has been read to its end
\* without error every map of the sink has been copied, as it is, by the
\* last flush.
C19_FinalFlush ==
    /\ []((Running /\ pc = "load" /\ rd.done) =>
            \A t \in DOMAIN SinkMaps :
              \E x \in 1..Len(db) :
                /\ db[x].flush = flushes /\ db[x].file = fileNo
                /\ db[x].table = t /\ db[x].data = SinkMaps[t]
                /\ db[x].status = "committed")
    /\ [][(rd'.done /\ ~rd.done) =>
            /\ parser.p.state = InitialState(parser.kind)
            /\ flushes' = flushes + 1]_vars

\* A releases file read to its end with batch size 2: the record that
\* remained in the map, its label and its video were copied by the flush
\* of End(releases).
C19_Witness ==
    /\ Running /\ pc = "load" /\ rd.done
    /\ parser.kind = "releases" /\ opt.batch_size = 2
    /\ \A t \in DOMAIN SinkMaps : SinkMaps[t] # HashMapNew
    /\ \A t \in DOMAIN SinkMaps :
         \E x \in 1..Len(db) :
           db[x].flush = flushes /\ db[x].table = t /\ db[x].data = SinkMaps[t]

\* C20: a flush calls the bulk writer only for the maps that hold rows: no
\* bulk copy is issued for an empty map.
C20_NoCopyOfEmptyMap ==
    \A x \in 1..Len(db) : db[x].data # HashMapNew

\* C21: after every flush that succeeded, at the batch threshold or at
\* End(<family-tag>), the parent map and every child map of the sink are
\* empty.
C21_MapsEmptyAfterFlush ==
    [][(flushes' = flushes + 1 /\ lastRes' = "ok") =>
          \A t \in DOMAIN SinkMaps' : SinkMaps'[t] = HashMapNew]_vars

\* The reader stands inside an element of the record for which the parser
\* of the family has no state.
InUnknownElement ==
    /\ Len(rd.stack) >= 3
    /\ KindShape(parser.kind, rd.stack[3]) = "nested"

\* C22: every event between the Start and the End of an element outside
\* the family's vocabulary leaves the current record unchanged.
C22_UnknownElementsIgnored ==
    [][(pc = "load" /\ InUnknownElement) =>
          CurrentRecord(parser.kind, parser'.p) = CurrentRecord(parser.kind, parser.p)]_vars

\* The step hands a whitespace-only Text event to the parser.
WhitespaceDelivered == pc = "load" /\ rd'.ws /\ ~rd.ws

\* The initial state and the collection outer states of each parser.
OuterStates(kind) ==
    CASE kind = "artists" -> {"Artist", "Urls", "Aliases", "Members"}
      [] kind = "labels" -> {"ReadLabel", "ReadSublabels", "ReadUrls"}
      [] kind = "masters" -> {"Master", "Artists"}
      [] kind = "releases" -> {"Release", "Genres", "Styles", "Labels", "Videos"}

\* C23: a whitespace-only Text event received in the initial state or in
\* a collection outer state leaves the parser state and the current record
\* unchanged.
C23_WhitespaceIgnored ==
    [][(WhitespaceDelivered /\ parser.p.state \in OuterStates(parser.kind)) =>
          /\ parser'.p.state = parser.p.state
          /\ CurrentRecord(parser.kind, parser'.p) = CurrentRecord(parser.kind, parser.p)]_vars

\* The step hands a Text event of a scalar element to the parser.
ScalarTextDelivered ==
    /\ pc = "load"
    /\ rd'.stack = rd.stack
    /\ rd.leaf \in {"open", "half"} /\ rd'.leaf \in {"half", "done"}

\* The read-scalar states of each parser.
ScalarStates(kind) ==
    CASE kind = "artists" -> {"Id", "Name", "RealName", "Profile", "DataQuality"}
      [] kind = "labels" ->
           {"ReadId", "ReadName", "ReadContactinfo", "ReadProfile", "ReadParentLabel",
            "ReadDataQuality"}
      [] kind = "masters" ->
           {"MainRelease", "Title", "DataQuality", "ArtistId", "ArtistName",
            "ArtistAnv", "ArtistRole"}
      [] kind = "releases" ->
           {"Title", "Country", "Released", "Notes", "MasterId", "DataQuality"}

\* The master_artist rows that came from record rec of the current file.
ArtistRowsOf(rec) ==
    LET in(c) == c.file = fileNo /\ c.rec = rec /\ c.table = "master_artist"
    IN SelectSeq(children, in)

\* C24: a Text event in a read-scalar state leaves the parser in that
\* state, so that of several Text events of one element the last one
\* wins: between two artists of a master, the id of the master_artist row
\* inserted last is the last text of the <id> elements read so far.
C24_ScalarStateKeepsLastText ==
    /\ [][(ScalarTextDelivered /\ lastRes' = "ok"
            /\ parser.p.state \in ScalarStates(parser.kind)) =>
             parser'.p.state = parser.p.state]_vars
    /\ []((pc = "load" /\ parser.kind = "masters" /\ Len(rd.stack) <= 3 /\ doc # <<>>) =>
            LET ids == ItemsOf(doc[Len(doc)], "artists")
                rows == ArtistRowsOf(Len(doc))
            IN (ids # <<>> /\ rows # <<>>) =>
                 rows[Len(rows)].row.id = ParseI32(ids[Len(ids)]).val)

\* The collection fields of the records of a family.
CollectionFields(family) ==
    {field \in ElementFields(family) : FieldType(field) = "TEXT_ARRAY"}

\* The texts of all the items of record d of the document.
ItemTexts(d) == {ParseString(d.items[k][2]).val : k \in 1..Len(d.items)}

\* The step hands Start(<record-tag>) to the parser.
RecordStartDelivered ==
    /\ pc = "load"
    /\ Len(rd.stack) = 1 /\ Len(rd'.stack) = 2

\* C25: Start(<record-tag>) in the initial state leaves every collection
\* field of the current record empty, and every item of every array
\* written for a record is the text of an item of that record.
C25_CollectionsClearedAtStart ==
    /\ [][(RecordStartDelivered /\ lastRes' = "ok"
            /\ parser.p.state = InitialState(parser.kind)) =>
             \A field \in CollectionFields(parser.kind) :
               CurrentRecord(parser.kind, parser'.p)[field] = <<>>]_vars
    /\ [](\A i \in DocCommits :
            Handed(i) =>
              \A field \in CollectionFields(opt.files[commits[i].file]) :
                \A k \in 1..Len(commits[i].row[field]) :
                  commits[i].row[field][k] \in ItemTexts(doc[commits[i].rec]))

\* Two releases, each with a genre and a style of its own, were written:
\* the second row carries its own genre and style and none of the first.
C25_Witness ==
    \E i, j \in DocCommits :
      /\ parser.kind = "releases"
      /\ commits[i].rec = 1 /\ commits[j].rec = 2
      /\ Handed(i) /\ Handed(j)
      /\ commits[i].row.genres # <<>> /\ commits[i].row.styles # <<>>
      /\ commits[j].row.genres # <<>> /\ commits[j].row.styles # <<>>
      /\ \A k \in 1..Len(commits[j].row.genres) :
           commits[j].row.genres[k] \notin ItemTexts(doc[1])

\* The child tables keyed by a counter of the parser, the counter, and
\* the tag of the document each of their rows comes from.
SyntheticTables(kind) ==
    CASE kind = "masters" -> {"master_artist"}
      [] kind = "releases" -> {"release_video"}
      [] OTHER -> {}

SyntheticKey(kind, p) ==
    IF kind = "masters" THEN p.current_master_id ELSE p.current_video_id

ChildTag(table) == IF table = "master_artist" THEN "artist" ELSE "video"

\* The tags of the current document that stand for a row of table t.
ChildTagsRead(t) ==
    UNION {{<<n, k>> : k \in {k \in 1..Len(doc[n].subs) :
                                   doc[n].subs[k].tag = ChildTag(t)}} :
           n \in 1..Len(doc)}

ChildRowsOf(f, t) ==
    LET in(c) == c.file = f /\ c.table = t IN SelectSeq(children, in)

\* C26: the keys of release_video and master_artist rows strictly increase
\* over the file and the counter never goes back, at a flush or elsewhere;
\* every <video> tag and every </artist> of a master's <artists> puts one
\* row into the child map, and once the file was read to its end without
\* error each of these rows was written, each by one copy.
C26_SyntheticKeysNeverCollide ==
    /\ [][(pc = "load" /\ pc' = "load") =>
            SyntheticKey(parser.kind, parser'.p) >= SyntheticKey(parser.kind, parser.p)]_vars
    /\ [](\A f \in FilesBegun : \A t \in SyntheticTables(opt.files[f]) :
            LET C == ChildRowsOf(f, t) IN
            /\ \A i, j \in 1..Len(C) : i < j => C[i].key < C[j].key
            /\ (Running /\ pc = "load" /\ f = fileNo /\ Len(rd.stack) <= 3)
                 => Len(C) = Cardinality(ChildTagsRead(t))
            /\ (Running /\ pc \in {"indexes", "done"} /\ f = Len(opt.files))
                 => /\ Cardinality(RowsWritten(f, t)) = Cardinality(ChildTagsRead(t))
                    /\ \A x, y \in 1..Len(db) :
                         (db[x].table = t /\ db[y].table = t /\ x # y)
                         => DOMAIN db[x].data \cap DOMAIN db[y].data = {})

\* Two releases with a video each were loaded with batch size 1: the video
\* of the second release was written by a later copy than the first, under
\* a key that went on from the first.
C26_Witness ==
    /\ pc = "done" /\ lastRes = "ok" /\ opt.batch_size = 1
    /\ \E x, y \in 1..Len(db) :
         /\ db[x].table = "release_video" /\ db[y].table = "release_video"
         /\ db[x].flush < db[y].flush
         /\ DOMAIN db[x].data = {0} /\ DOMAIN db[y].data = {1}
         /\ db[x].status = "committed" /\ db[y].status = "committed"

\* C27: every master row handed to the bulk writer carries, in genres and
\* in styles, the texts of the genre and style items of its master.
C27_MasterGenresAndStyles ==
    \A i \in DocCommits :
      (Handed(i) /\ opt.files[commits[i].file] = "masters") =>
        /\ commits[i].row.genres = ItemsOf(doc[commits[i].rec], "genres")
        /\ commits[i].row.styles = ItemsOf(doc[commits[i].rec], "styles")

\* The step hands the text of an item of a collection to the parser.
ItemTextDelivered ==
    /\ pc = "load"
    /\ Len(rd.stack) = 4 /\ rd'.stack = rd.stack
    /\ rd.leaf = "open" /\ rd'.leaf = "done"

\* C28: the artist parser never populates name_variations nor aliases; the
\* text it reads in state Alias or Member is appended to members and the
\* text it reads in state Url to urls; the first alias and the first member
\* of a written artist are its first two members and its first url is its
\* first url.
C28_AliasTextGoesToMembers ==
    /\ [](parser.kind = "artists" =>
            /\ parser.p.current_artist.name_variations = <<>>
            /\ parser.p.current_artist.aliases = <<>>)
    /\ [](\A i \in DocCommits :
            (Handed(i) /\ opt.files[commits[i].file] = "artists") =>
              /\ commits[i].row.name_variations = <<>>
              /\ commits[i].row.aliases = <<>>
              /\ SubSeq(commits[i].row.members, 1, 2) =
                   <<ItemsOf(doc[commits[i].rec], "aliases")[1],
                     ItemsOf(doc[commits[i].rec], "members")[1]>>
              /\ SubSeq(commits[i].row.urls, 1, 1) =
                   <<ItemsOf(doc[commits[i].rec], "urls")[1]>>)
    /\ [][(ItemTextDelivered /\ parser.kind = "artists" /\ lastRes' = "ok") =>
            LET c == parser.p.current_artist
                d == parser'.p.current_artist
                text == ItemTable[rd.recs][rd.items]
            IN  /\ parser.p.state \in {"Alias", "Member"} =>
                      d.members = Append(c.members, text) /\ d.urls = c.urls
                /\ parser.p.state = "Url" =>
                      d.urls = Append(c.urls, text) /\ d.members = c.members]_vars

\* An artist with an alias, a member and a url was written: its members
\* hold the alias and the member, its aliases and name variations nothing.
C28_Witness ==
    \E i \in DocCommits :
      /\ Handed(i) /\ opt.files[commits[i].file] = "artists"
      /\ ItemsOf(doc[commits[i].rec], "aliases") # <<>>
      /\ ItemsOf(doc[commits[i].rec], "members") # <<>>
      /\ ItemsOf(doc[commits[i].rec], "namevariations") # <<>>
      /\ Len(commits[i].row.members) = 2
      /\ Len(commits[i].row.urls) = 1
      /\ commits[i].row.aliases = <<>>
\* The step hands the opening tag of a record to the parser.  The step
\* hands a label or video tag to the parser and a child row enters a map.
RecordTagDelivered == pc = "load" /\ Len(doc') = Len(doc) + 1

ChildTagDelivered ==
    /\ pc = "load" /\ Len(doc) > 0 /\ Len(doc') = Len(doc)
    /\ Len(doc'[Len(doc)].subs) = Len(doc[Len(doc)].subs) + 1
    /\ Len(children') = Len(children) + 1

\* C29: attributes are read by position: the id and status of a release
\* are attributes 0 and 1 of its tag and the id of a master attribute 0;
\* label, catno and label_id of a release_label row are attributes 0, 1
\* and 2 of the label tag; src and duration of a release_video row are
\* attributes 0 and 1 of the video tag; the parent id of every child row is
\* the id of the current record.
C29_AttributesByPosition ==
    /\ [][(RecordTagDelivered /\ lastRes' = "ok") =>
            LET a == doc'[Len(doc')].attrs IN
            /\ parser.kind = "releases" =>
                  /\ parser'.p.current_release.id = ParseI32(a[1]).val
                  /\ parser'.p.current_release.status = ParseString(a[2]).val
            /\ parser.kind = "masters" =>
                  parser'.p.current_master.id = ParseI32(a[1]).val]_vars
    /\ [][ChildTagDelivered =>
            LET subs == doc'[Len(doc)].subs
                a == subs[Len(subs)].attrs
                c == children'[Len(children')]
            IN  /\ c.table = "release_label" =>
                      /\ c.row.label = ParseString(a[1]).val
                      /\ c.row.catno = ParseString(a[2]).val
                      /\ c.row.label_id = ParseI32(a[3]).val
                /\ c.table = "release_video" =>
                      /\ c.row.src = ParseString(a[1]).val
                      /\ c.row.duration = ParseI32(a[2]).val]_vars
    /\ [](\A k \in 1..Len(children) :
            children[k].file = fileNo /\ children[k].rec <= Len(doc) =>
              ParentId(children[k].table, children[k].row) =
                ParseI32(doc[children[k].rec].attrs[1]).val)

\* A label tag written catno, name, id gave a release_label row whose
\* label is the catno and whose catno is the name, and a video tag gave a
\* release_video row.
C29_Witness ==
    \E j, k \in 1..Len(children) :
      /\ children[j].table = "release_label" /\ children[j].file = fileNo
      /\ children[j].rec <= Len(doc)
      /\ children[j].row.label = ItemTable[children[j].rec][1]
      /\ children[j].row.catno = RecText[children[j].rec]
      /\ children[k].table = "release_video"
\* The place of key k in the order in which copy x's batch saw its records:
\* the index of the commit that put k into the map the copy wrote.
FirstSeen(x, k) ==
    LET S == {i \in 1..Len(commits) :
                /\ commits[i].file = db[x].file /\ commits[i].key = k
                /\ commits[i].inserted /\ commits[i].batch <= db[x].flush}
    IN CHOOSE i \in S : \A j \in S : j <= i

\* C30: each copy of a parent table hands its rows to the bulk writer in
\* the order in which the batch first saw their records.
C30_RowsInFirstSeenOrder ==
    \A x \in 1..Len(db) :
      (lim.hashed /\ db[x].table = ParentTable(opt.files[db[x].file])) =>
        \A a, b \in 1..Len(db[x].order) :
          a < b => FirstSeen(x, db[x].order[a]) < FirstSeen(x, db[x].order[b])
\* C31: the load of every list of finite files comes to an end, with
\* success or with an error, also when a file holds no Start element of a
\* family.
C31_LoadTerminates == <>(pc \in {"done", "exit1", "panicked"})
\* The step is a commit that flushed: a threshold-triggered flush.
ThresholdFlush ==
    /\ pc = "load"
    /\ Len(commits') = Len(commits) + 1
    /\ flushes' = flushes + 1

\* C32: after every process() call that returned without error the parent
\* map holds fewer than batch_size records, and the parent copy of every
\* threshold-triggered flush holds exactly batch_size rows.
C32_ParentMapBelowBatchSize ==
    /\ []((pc = "load" /\ lastRes = "ok") =>
            MapLen(ParentMap(parser.kind, parser.p)) < opt.batch_size)
    /\ [][ThresholdFlush =>
            \A x \in (Len(db) + 1)..Len(db') :
              db'[x].table = ParentTable(parser.kind) =>
                MapLen(db'[x].data) = opt.batch_size]_vars

\* A batch of two records was written at the second commit and the load
\* goes on with an empty parent map.
C32_Witness ==
    /\ pc = "load" /\ lastRes = "ok" /\ ~rd.done
    /\ opt.batch_size = 2 /\ Len(commits) = 2 /\ flushes = 1
    /\ Len(db) >= 1 /\ db[1].table = ParentTable(parser.kind)
    /\ MapLen(db[1].data) = 2 /\ db[1].status = "committed"
    /\ ParentMap(parser.kind, parser.p) = HashMapNew
\* C33: no row is handed to the bulk writer more than once during the load
\* of a file: for records with distinct keys, no two copies of a table made
\* for the same file hold the same key.
C33_NoRowWrittenTwice ==
    \A x, y \in 1..Len(db) :
      (x < y /\ db[x].file = db[y].file /\ db[x].table = db[y].table
         /\ DistinctKeys(CommitsOf(db[x].file))) =>
        DOMAIN db[x].data \cap DOMAIN db[y].data = {}
\* Child row k came from an occurrence of a record that End(<record-tag>)
\* dropped because its id was in the parent map already.
FromDropped(k) ==
    \E i \in 1..Len(commits) :
      /\ commits[i].file = children[k].file /\ commits[i].rec = children[k].rec
      /\ ~commits[i].inserted

\* Child row k is in a committed copy of its table.
ChildWritten(k) ==
    \E x \in 1..Len(db) :
      /\ db[x].file = children[k].file /\ db[x].table = children[k].table
      /\ db[x].status = "committed"
      /\ children[k].key \in DOMAIN db[x].data
      /\ db[x].data[children[k].key] = children[k].row

\* C34: the child rows parsed inside an occurrence of a release or master
\* that was dropped as a duplicate within its batch are not written.
C34_ChildrenOfDroppedNotWritten ==
    \A k \in 1..Len(children) : FromDropped(k) => ~ChildWritten(k)
\* The reader stands inside the namevariations, aliases or members element
\* of an artist.
InArtistCollection ==
    /\ pc = "load" /\ parser.kind = "artists"
    /\ Len(rd.stack) >= 3
    /\ rd.stack[3] \in {"namevariations", "aliases", "members"}

\* C35: no event read inside an artist's namevariations, aliases or members
\* element changes the id or the name of the artist.
C35_NestedItemsLeaveIdAndName ==
    [][InArtistCollection =>
          /\ parser'.p.current_artist.id = parser.p.current_artist.id
          /\ parser'.p.current_artist.name = parser.p.current_artist.name]_vars
====
